---- MODULE Spec2Model ----
(***************************************************************************)
(* Podium audio engine: the sample ring buffer, the PodiumPlayer /         *)
(* PlaybackEngine pair of player-ffi and the DesktopAudioPlayer, modelled  *)
(* as three state machines over disjoint groups of variables.              *)
(*   SpecRing    - AudioRingBuffer under write/read/clear/resize           *)
(*   Spec        - PodiumPlayer API calls interleaved with decode_loop     *)
(*   SpecDesktop - DesktopAudioPlayer API calls, decoder thread, callback  *)
(***************************************************************************)
EXTENDS Integers, Sequences, FiniteSets

\* ---- ring buffer state
VARIABLES rb, rbKind, wlog, rlog, acc, overflow, lastOp, lastData, lastRet

ringVars == <<rb, rbKind, wlog, rlog, acc, overflow, lastOp, lastData, lastRet>>

\* ---- PodiumPlayer / PlaybackEngine state (player-ffi)
\* state, status_position_ms: PlayerStateContainer; loaded, engine, last_source:
\* PodiumPlayer; eng[e]: the fields of PlaybackEngine e shared with its thread;
\* thr[e]: position and locals of decode_loop of engine e; api: the API call in
\* progress; seekHist[e]: the seek requests stored and not yet seen by the thread
VARIABLES state, status_position_ms, loaded, engine, last_source, eng, thr, api,
          seekHist

podVars == <<state, status_position_ms, loaded, engine, last_source, eng, thr, api,
             seekHist>>

\* DesktopAudioPlayer: desk holds the fields of the player shared with its decoder
\* thread and the output callback; dthr: position and locals of the decoder
\* thread; dapi: the API call in progress
VARIABLES desk, dthr, dapi

deskVars == <<desk, dthr, dapi>>

\* PlayerStateContainer on its own: container holds its state, validation the
\* last validate_state_transition call (the state it saw, its arguments, its result)
VARIABLES container, validation

scVars == <<container, validation>>

\* HttpRangeSource: http holds the fields of HttpRangeState (and the read
\* position of the source); net the last call made on the source: its kind, the
\* position it started from, the Range request it sent, what it returned
VARIABLES http, net

httpVars == <<http, net>>

\* M4A sources: m4file is the file the server holds, as its top-level boxes;
\* vfs a VirtualFastStartSource reading it, with the bytes it has returned;
\* smart the progress and the outcome of SmartM4ASource::new
VARIABLES m4file, vfs, smart

m4aVars == <<m4file, vfs, smart>>

\* CallbackManager: the clock, the registered ThrottledCallbacks with what each
\* inner callback has received, and the events passed to dispatch_event
VARIABLES cb

cbVars == <<cb>>

\* volume and playback rate of a player, with the last set_ call made on it
VARIABLES settings

settingsVars == <<settings>>

\* position accounting of the decode loop: the format, the position counter
\* and the frames written since the last seek
VARIABLES acct

posVars == <<acct>>

\* the sliding-window streaming source: the state shared with the download
\* worker, the reader's cursor and the outcome of its last call
VARIABLES stream

streamVars == <<stream>>

\* the output callback of a stream over its ring buffer, with the samples
\* written and not yet played and the outcome of the last invocation
VARIABLES render

renderVars == <<render>>

\* HttpRangeState::initialize: the server it talks to, the total size it has
\* learnt, the requests it made and how far the call has got
VARIABLES probe

sizeVars == <<probe>>

vars == <<ringVars, podVars, deskVars, scVars, httpVars, m4aVars, cbVars, settingsVars, posVars, streamVars, renderVars, sizeVars>>

\* the variables of the other machines, for each machine
notRingVars == <<podVars, deskVars, scVars, httpVars, m4aVars, cbVars, settingsVars, posVars, streamVars, renderVars, sizeVars>>

notPodVars == <<ringVars, deskVars, scVars, httpVars, m4aVars, cbVars, settingsVars, posVars, streamVars, renderVars, sizeVars>>

notDeskVars == <<ringVars, podVars, scVars, httpVars, m4aVars, cbVars, settingsVars, posVars, streamVars, renderVars, sizeVars>>

notScVars == <<ringVars, podVars, deskVars, httpVars, m4aVars, cbVars, settingsVars, posVars, streamVars, renderVars, sizeVars>>

notHttpVars == <<ringVars, podVars, deskVars, scVars, m4aVars, cbVars, settingsVars, posVars, streamVars, renderVars, sizeVars>>

notM4aVars == <<ringVars, podVars, deskVars, scVars, httpVars, cbVars, settingsVars, posVars, streamVars, renderVars, sizeVars>>

notCbVars == <<ringVars, podVars, deskVars, scVars, httpVars, m4aVars, settingsVars, posVars, streamVars, renderVars, sizeVars>>

notSettingsVars == <<ringVars, podVars, deskVars, scVars, httpVars, m4aVars, cbVars, posVars, streamVars, renderVars, sizeVars>>

notPosVars == <<ringVars, podVars, deskVars, scVars, httpVars, m4aVars, cbVars, settingsVars, streamVars, renderVars, sizeVars>>

notStreamVars == <<ringVars, podVars, deskVars, scVars, httpVars, m4aVars, cbVars, settingsVars, posVars, renderVars, sizeVars>>

notRenderVars == <<ringVars, podVars, deskVars, scVars, httpVars, m4aVars, cbVars, settingsVars, posVars, streamVars, sizeVars>>

notSizeVars == <<ringVars, podVars, deskVars, scVars, httpVars, m4aVars, cbVars, settingsVars, posVars, streamVars, renderVars>>

Min(a, b) == IF a <= b THEN a ELSE b

\* ------------------------------------------------------------------------
\* Bounds of the ring-buffer model
\* ------------------------------------------------------------------------
\* largest capacity (slots) a buffer is created or resized with
MaxCap == 4
\* longest slice handed to one write()
MaxWrite == 3
\* longest output slice handed to one read()
MaxRead == 3
\* samples passed to write() between two clear()/resize() calls
MaxLog == 6

\* ------------------------------------------------------------------------
\* AudioRingBuffer (podium-audio/crates/ringbuffer, rust-audio-player/decoder)
\* ------------------------------------------------------------------------
\* AudioRingBuffer::new: zeroed storage, both cursors 0
new(size) ==
    [buffer |-> [i \in 0..(size - 1) |-> 0], write_pos |-> 0, read_pos |-> 0, size |-> size]

available_write_full(b) ==
    IF b.write_pos >= b.read_pos
        THEN b.size - (b.write_pos - b.read_pos)
        ELSE b.read_pos - b.write_pos

available_write(b) ==
    IF b.write_pos >= b.read_pos
        THEN b.size - (b.write_pos - b.read_pos) - 1
        ELSE b.read_pos - b.write_pos - 1

available_read(b) ==
    IF b.write_pos >= b.read_pos
        THEN b.write_pos - b.read_pos
        ELSE b.size - (b.read_pos - b.write_pos)

\* write() with the cursor left at write_end (the "% size" of line 38 dropped)
write_nomod(b, data) ==
    LET available == available_write(b)
        to_write == Min(Len(data), available)
        write_end == b.write_pos + to_write
    IN  IF to_write = 0 THEN [rb |-> b, ret |-> 0]
        ELSE IF write_end <= b.size
        THEN [rb |-> [b EXCEPT
                        !.buffer = [i \in DOMAIN b.buffer |->
                            IF i >= b.write_pos /\ i < write_end
                                THEN data[i - b.write_pos + 1] ELSE b.buffer[i]],
                        !.write_pos = write_end],
              ret |-> to_write]
        ELSE LET first_chunk == b.size - b.write_pos
                 second_chunk == to_write - first_chunk
             IN [rb |-> [b EXCEPT
                        !.buffer = [i \in DOMAIN b.buffer |->
                            IF i >= b.write_pos THEN data[i - b.write_pos + 1]
                            ELSE IF i < second_chunk THEN data[first_chunk + i + 1]
                            ELSE b.buffer[i]],
                        !.write_pos = second_chunk],
                 ret |-> to_write]

\* write() whose second block copies from the start of data again
write_wrapbug(b, data) ==
    LET available == available_write(b)
        to_write == Min(Len(data), available)
        write_end == b.write_pos + to_write
    IN  IF to_write = 0 THEN [rb |-> b, ret |-> 0]
        ELSE IF write_end <= b.size
        THEN [rb |-> [b EXCEPT
                        !.buffer = [i \in DOMAIN b.buffer |->
                            IF i >= b.write_pos /\ i < write_end
                                THEN data[i - b.write_pos + 1] ELSE b.buffer[i]],
                        !.write_pos = write_end % b.size],
              ret |-> to_write]
        ELSE LET first_chunk == b.size - b.write_pos
                 second_chunk == to_write - first_chunk
             IN [rb |-> [b EXCEPT
                        !.buffer = [i \in DOMAIN b.buffer |->
                            IF i >= b.write_pos THEN data[i - b.write_pos + 1]
                            ELSE IF i < second_chunk THEN data[i + 1]
                            ELSE b.buffer[i]],
                        !.write_pos = second_chunk],
                 ret |-> to_write]

\* AudioRingBuffer::write of the ringbuffer crate: at most two block copies
write(b, data) ==
    LET available == available_write(b)
        to_write == Min(Len(data), available)
        write_end == b.write_pos + to_write
    IN  IF to_write = 0 THEN [rb |-> b, ret |-> 0]
        ELSE IF write_end <= b.size
        THEN [rb |-> [b EXCEPT
                        !.buffer = [i \in DOMAIN b.buffer |->
                            IF i >= b.write_pos /\ i < write_end
                                THEN data[i - b.write_pos + 1] ELSE b.buffer[i]],
                        !.write_pos = write_end % b.size],
              ret |-> to_write]
        ELSE LET first_chunk == b.size - b.write_pos
                 second_chunk == to_write - first_chunk
             IN [rb |-> [b EXCEPT
                        !.buffer = [i \in DOMAIN b.buffer |->
                            IF i >= b.write_pos THEN data[i - b.write_pos + 1]
                            ELSE IF i < second_chunk THEN data[first_chunk + i + 1]
                            ELSE b.buffer[i]],
                        !.write_pos = second_chunk],
                 ret |-> to_write]

\* AudioRingBuffer::read of the ringbuffer crate: at most two block copies
read(b, n) ==
    LET available == available_read(b)
        to_read == Min(n, available)
        read_end == b.read_pos + to_read
    IN  IF to_read = 0 THEN [rb |-> b, out |-> << >>, ret |-> 0]
        ELSE IF read_end <= b.size
        THEN [rb |-> [b EXCEPT !.read_pos = read_end % b.size],
              out |-> [i \in 1..to_read |-> b.buffer[b.read_pos + i - 1]],
              ret |-> to_read]
        ELSE LET first_chunk == b.size - b.read_pos
                 second_chunk == to_read - first_chunk
             IN [rb |-> [b EXCEPT !.read_pos = second_chunk],
                 out |-> [i \in 1..to_read |->
                            IF i <= first_chunk THEN b.buffer[b.read_pos + i - 1]
                            ELSE b.buffer[i - first_chunk - 1]],
                 ret |-> to_read]

\* the per-sample loop of decoder.rs write(): i-th sample, cursor advanced mod size
RECURSIVE write_loop(_, _, _, _)
write_loop(b, data, i, to_write) ==
    IF i > to_write THEN b
    ELSE write_loop([b EXCEPT !.buffer[b.write_pos] = data[i],
                              !.write_pos = (b.write_pos + 1) % b.size],
                    data, i + 1, to_write)

\* AudioRingBuffer::write of rust-audio-player/decoder.rs
write_legacy(b, data) ==
    LET available == available_write(b)
        to_write == Min(Len(data), available)
    IN  [rb |-> write_loop(b, data, 1, to_write), ret |-> to_write]

\* the per-sample loop of decoder.rs read()
RECURSIVE read_loop(_, _, _, _)
read_loop(b, out, i, to_read) ==
    IF i > to_read THEN [rb |-> b, out |-> out]
    ELSE read_loop([b EXCEPT !.read_pos = (b.read_pos + 1) % b.size],
                   Append(out, b.buffer[b.read_pos]), i + 1, to_read)

\* AudioRingBuffer::read of rust-audio-player/decoder.rs
read_legacy(b, n) ==
    LET available == available_read(b)
        to_read == Min(n, available)
        r == read_loop(b, << >>, 1, to_read)
    IN  [rb |-> r.rb, out |-> r.out, ret |-> to_read]

\* clear that resets the read cursor only
clear_read_pos_only(b) == [b EXCEPT !.read_pos = 0]

clear(b) == [b EXCEPT !.write_pos = 0, !.read_pos = 0]

resize(b, new_size) ==
    IF new_size # b.size THEN new(new_size) ELSE b

\* fullness() > num/den, without the f32 division
fullness_gt(b, num, den) == available_read(b) * den > num * b.size

\* the unread samples, oldest first
Contents(b) ==
    [i \in 1..available_read(b) |-> b.buffer[(b.read_pos + i - 1) % b.size]]

\* the slice a caller passes: n fresh samples, numbered on from those passed so far
Fresh(n) == [i \in 1..n |-> Len(wlog) + i]

IsPrefix(s, t) == Len(s) <= Len(t) /\ \A i \in 1..Len(s) : s[i] = t[i]

RingInit ==
    /\ rbKind \in {"ringbuffer", "decoder"}
    /\ \E size \in 1..MaxCap : rb = new(size)
    /\ wlog = << >>
    /\ rlog = << >>
    /\ acc = 0
    /\ overflow = FALSE
    /\ lastOp = "new"
    /\ lastData = << >>
    /\ lastRet = 0

RingWrite ==
    \E n \in 0..MaxWrite :
        /\ Len(wlog) + n <= MaxLog
        /\ LET data == Fresh(n)
               r == IF rbKind = "ringbuffer" THEN write(rb, data) ELSE write_legacy(rb, data)
           IN  /\ rb' = r.rb
               /\ wlog' = wlog \o data
               /\ acc' = acc + r.ret
               /\ overflow' = (overflow \/ r.ret < n)
               /\ lastOp' = "write"
               /\ lastData' = data
               /\ lastRet' = r.ret
        /\ UNCHANGED <<rbKind, rlog>>
        /\ UNCHANGED notRingVars

RingRead ==
    \E n \in 0..MaxRead :
        LET r == IF rbKind = "ringbuffer" THEN read(rb, n) ELSE read_legacy(rb, n)
        IN  /\ rb' = r.rb
            /\ rlog' = rlog \o r.out
            /\ lastOp' = "read"
            /\ lastData' = r.out
            /\ lastRet' = r.ret
            /\ UNCHANGED <<rbKind, wlog, acc, overflow>>
            /\ UNCHANGED notRingVars

RingClear ==
    /\ rb' = clear(rb)
    /\ wlog' = << >>
    /\ rlog' = << >>
    /\ acc' = 0
    /\ overflow' = FALSE
    /\ lastOp' = "clear"
    /\ lastData' = << >>
    /\ lastRet' = 0
    /\ UNCHANGED rbKind
    /\ UNCHANGED notRingVars

RingResize ==
    /\ rbKind = "ringbuffer"
    /\ \E new_size \in 1..MaxCap :
        /\ rb' = resize(rb, new_size)
        /\ IF new_size # rb.size
              THEN wlog' = << >> /\ rlog' = << >> /\ acc' = 0 /\ overflow' = FALSE
              ELSE UNCHANGED <<wlog, rlog, acc, overflow>>
        /\ lastOp' = "resize"
        /\ lastData' = << >>
        /\ lastRet' = new_size
    /\ UNCHANGED rbKind
    /\ UNCHANGED notRingVars

RingNext == RingWrite \/ RingRead \/ RingClear \/ RingResize

\* the ring-buffer variables while another machine runs
RingParked ==
    /\ rbKind = "ringbuffer"
    /\ rb = new(1)
    /\ wlog = << >>
    /\ rlog = << >>
    /\ acc = 0
    /\ overflow = FALSE
    /\ lastOp = "new"
    /\ lastData = << >>
    /\ lastRet = 0

\* ------------------------------------------------------------------------
\* Bounds of the PodiumPlayer model
\* ------------------------------------------------------------------------
\* engines that can exist side by side (a second one only if one is leaked)
NumSlots == 2
\* capacity of the ring a PlaybackEngine starts with (48000 * 2 * 5, scaled)
InitialRingSize == 12
\* capacity after decode_loop resized it for the track (rate * channels * 5, scaled)
TrackRingSize == 11
\* packets in a track
NumPackets == 2
\* interleaved samples the decoder returns per packet
PacketLen == 6
\* samples the output device asks for per callback
CallbackLen == 6
\* largest seek target, in ms
MaxSeekMs == 1

\* ------------------------------------------------------------------------
\* PlayerStateContainer (podium-audio/crates/core/src/state.rs)
\* ------------------------------------------------------------------------
PlayerStates == {"Idle", "Loading", "Ready", "Playing", "Paused", "Stopped", "Error"}

\* the match of validate_state_transition
TransitionTable ==
    { <<"Idle", "Loading">>, <<"Idle", "Error">>,
      <<"Loading", "Ready">>, <<"Loading", "Error">>,
      <<"Ready", "Playing">>, <<"Ready", "Loading">>, <<"Ready", "Idle">>,
      <<"Ready", "Error">>,
      <<"Playing", "Paused">>, <<"Playing", "Stopped">>, <<"Playing", "Error">>,
      <<"Playing", "Ready">>,
      <<"Paused", "Playing">>, <<"Paused", "Stopped">>, <<"Paused", "Error">>,
      <<"Stopped", "Playing">>, <<"Stopped", "Ready">>, <<"Stopped", "Idle">>,
      <<"Stopped", "Error">>,
      <<"Error", "Idle">>, <<"Error", "Loading">> }

\* validate_state_transition(from, to) called while the state is current: TRUE for Ok
validate_state_transition(current, from, to) ==
    IF current # from THEN FALSE ELSE <<from, to>> \in TransitionTable

\* PlayerStateContainer::new; no validate_state_transition call made yet
ContainerNew == [state |-> "Idle"]

NoValidation == [current |-> "none", from |-> "none", to |-> "none", result |-> "none"]

ScInit ==
    /\ container = ContainerNew
    /\ validation = NoValidation

\* the container's variables while another machine runs
ScParked == ScInit

\* set_state(new_state), lines 72-75: the state is stored, nothing is checked
ScSetState ==
    /\ \E new_state \in PlayerStates : container' = [container EXCEPT !.state = new_state]
    /\ UNCHANGED validation
    /\ UNCHANGED notScVars

\* validate_state_transition(from, to), lines 89-139: Ok or InvalidState; the
\* state is only read
ScValidate ==
    /\ \E from \in PlayerStates, to \in PlayerStates :
        validation' = [current |-> container.state, from |-> from, to |-> to,
                       result |-> IF validate_state_transition(container.state, from, to)
                                     THEN "Ok" ELSE "InvalidState"]
    /\ UNCHANGED container
    /\ UNCHANGED notScVars

ScNext == ScSetState \/ ScValidate

\* ------------------------------------------------------------------------
\* PodiumPlayer and PlaybackEngine (podium-audio/crates/player-ffi/src/lib.rs)
\* ------------------------------------------------------------------------
Slots == 1..NumSlots

\* SourceKind values handed to load
Sources == {"fileA", "fileB"}

SeekTargets == 0..MaxSeekMs

\* config.sample_rate() of the output device, frames per second
DeviceSampleRate == 2000
\* track_info.sample_rate, frames per second
TrackSampleRate == 2000
\* out_channels: channels of the samples written to the ring
OutChannels == 2

\* PlaybackEngine::new: the fields shared with the decode thread
EngineNew ==
    [ring |-> new(InitialRingSize), position_ms |-> 0, duration_ms |-> 0,
     playing |-> FALSE, stop_flag |-> FALSE, seek_request |-> 0,
     audio_stream |-> FALSE, handle |-> TRUE]

\* a slot holding no engine
EngineNone == [EngineNew EXCEPT !.handle = FALSE]

ThreadNone == [pc |-> "none", demux_pos |-> 0, target_ms |-> 0, pcm |-> << >>]

ThreadDone == [ThreadNone EXCEPT !.pc = "done"]

ApiIdle == [pc |-> "idle", op |-> "none", src |-> "none", ms |-> 0, cur |-> 0]

\* no seek request stored that the thread has not seen
NoSeek == 0 - 1

\* pending: the target of the newest request the thread has not seen, or NoSeek;
\* superseded: the newest request replaced an older, different one unseen;
\* after_exit: the newest request was stored when the thread had already exited
SeekHistNone == [pending |-> NoSeek, superseded |-> FALSE, after_exit |-> FALSE]

ThreadAlive(e) == thr[e].pc \notin {"none", "done"}

\* the decode thread of engine e is over: joined by stop(), or gone through its
\* end-of-stream exit, which drops the stream
ThreadExited(e) ==
    /\ thr[e].pc = "done"
    /\ ~eng[e].audio_stream
    /\ ~eng[e].handle \/ eng[e].duration_ms # 0

\* the decoded samples of packet p: PacketLen samples, none of them silence
PacketSamples(p) == [i \in 1..PacketLen |-> 1]

\* container duration of the track in ms
TrackDurationMs == (NumPackets * (PacketLen \div OutChannels) * 1000) \div TrackSampleRate

\* Demuxer::seek(time_ms): the packet holding the timestamp; past the end the
\* seek fails and the reader stays where it is (the caller ignores the error)
demuxer_seek(pos, time_ms) ==
    LET timestamp == (time_ms * TrackSampleRate) \div 1000
        packet == timestamp \div (PacketLen \div OutChannels)
    IN  IF packet < NumPackets THEN packet ELSE pos

\* seek_request.load(): the slot read but left as it is
seek_request_load(v) == [taken |-> v, left |-> v]

\* seek_request.swap(0): the value taken and the value left in the slot
seek_request_swap(v) == [taken |-> v, left |-> 0]

\* a slot no engine occupies: not held by the player or the running call, no
\* thread alive, no stream open
SlotFree(e) ==
    /\ engine # e
    /\ api.cur # e
    /\ ~ThreadAlive(e)
    /\ ~eng[e].audio_stream

\* get_status().position_ms
get_status_position_ms ==
    IF engine # 0 THEN eng[engine].position_ms ELSE status_position_ms

PodInit ==
    /\ state = "Idle"
    /\ status_position_ms = 0
    /\ loaded = FALSE
    /\ engine = 0
    /\ last_source = "none"
    /\ eng = [e \in Slots |-> EngineNone]
    /\ thr = [e \in Slots |-> ThreadNone]
    /\ api = ApiIdle
    /\ seekHist = [e \in Slots |-> SeekHistNone]

\* the API call in progress returns
Return(result) == api' = ApiIdle

\* ---- decode_loop of engine e, one shared access per step

\* lines 418-457: open the source, probe, store the duration, resize the ring
DecodeOpen(e) ==
    /\ thr[e].pc = "open"
    /\ \/ /\ thr' = [thr EXCEPT ![e].pc = "device"]
          /\ eng' = [eng EXCEPT ![e].duration_ms = TrackDurationMs,
                                ![e].ring = resize(@, TrackRingSize)]
       \/ /\ thr' = [thr EXCEPT ![e] = ThreadDone]
          /\ UNCHANGED eng
    /\ UNCHANGED <<state, status_position_ms, loaded, engine, last_source, api, seekHist>>
    /\ UNCHANGED notPodVars

\* lines 459-513: open the device, build and start the stream, store it
DecodeDevice(e) ==
    /\ thr[e].pc = "device"
    /\ \/ /\ thr' = [thr EXCEPT ![e].pc = "init_playing"]
          /\ eng' = [eng EXCEPT ![e].audio_stream = TRUE]
       \/ /\ thr' = [thr EXCEPT ![e] = ThreadDone]
          /\ UNCHANGED eng
    /\ UNCHANGED <<state, status_position_ms, loaded, engine, last_source, api, seekHist>>
    /\ UNCHANGED notPodVars

\* line 515
DecodeInitPlaying(e) ==
    /\ thr[e].pc = "init_playing"
    /\ eng' = [eng EXCEPT ![e].playing = FALSE]
    /\ thr' = [thr EXCEPT ![e].pc = "init_state"]
    /\ UNCHANGED <<state, status_position_ms, loaded, engine, last_source, api, seekHist>>
    /\ UNCHANGED notPodVars

\* line 516
DecodeInitState(e) ==
    /\ thr[e].pc = "init_state"
    /\ state' = "Ready"
    /\ thr' = [thr EXCEPT ![e].pc = "check_stop"]
    /\ UNCHANGED <<status_position_ms, loaded, engine, last_source, eng, api, seekHist>>
    /\ UNCHANGED notPodVars

\* lines 520-523
DecodeCheckStop(e) ==
    /\ thr[e].pc = "check_stop"
    /\ thr' = [thr EXCEPT ![e].pc = IF eng[e].stop_flag THEN "cleanup" ELSE "throttle"]
    /\ UNCHANGED <<state, status_position_ms, loaded, engine, last_source, eng, api,
                   seekHist>>
    /\ UNCHANGED notPodVars

\* lines 526-529: not playing and the ring more than 0.9 full: sleep, continue
DecodeThrottle(e) ==
    /\ thr[e].pc = "throttle"
    /\ thr' = [thr EXCEPT ![e].pc =
                 IF ~eng[e].playing /\ fullness_gt(eng[e].ring, 9, 10)
                     THEN "check_stop" ELSE "swap"]
    /\ UNCHANGED <<state, status_position_ms, loaded, engine, last_source, eng, api,
                   seekHist>>
    /\ UNCHANGED notPodVars

\* lines 532-533: take the pending seek
DecodeSwap(e) ==
    /\ thr[e].pc = "swap"
    /\ LET r == seek_request_swap(eng[e].seek_request)
       IN  /\ eng' = [eng EXCEPT ![e].seek_request = r.left]
           /\ thr' = [thr EXCEPT ![e].target_ms = r.taken,
                                 ![e].pc = IF r.taken > 0 THEN "reseek" ELSE "next"]
    /\ seekHist' = [seekHist EXCEPT ![e].pending = NoSeek]
    /\ UNCHANGED <<state, status_position_ms, loaded, engine, last_source, api>>
    /\ UNCHANGED notPodVars

\* lines 534-537: re-seek the demuxer, reset the position, clear the ring
DecodeReseek(e) ==
    /\ thr[e].pc = "reseek"
    /\ thr' = [thr EXCEPT ![e].demux_pos = demuxer_seek(@, thr[e].target_ms),
                          ![e].pc = "next"]
    /\ eng' = [eng EXCEPT ![e].position_ms = thr[e].target_ms,
                          ![e].ring = clear(@)]
    /\ UNCHANGED <<state, status_position_ms, loaded, engine, last_source, api, seekHist>>
    /\ UNCHANGED notPodVars

\* lines 539-550, 571-574: next packet decoded; or the demuxer ends or fails
\* (break); or decoder.decode fails (the function returns at once)
DecodeNext(e) ==
    /\ thr[e].pc = "next"
    /\ \/ /\ thr[e].demux_pos < NumPackets
          /\ thr' = [thr EXCEPT ![e].pcm = PacketSamples(thr[e].demux_pos),
                                ![e].demux_pos = @ + 1,
                                ![e].pc = "write"]
       \/ /\ thr' = [thr EXCEPT ![e].pc = "cleanup"]
       \/ /\ thr[e].demux_pos < NumPackets
          /\ thr' = [thr EXCEPT ![e] = ThreadDone]
    /\ UNCHANGED <<state, status_position_ms, loaded, engine, last_source, eng, api,
                   seekHist>>
    /\ UNCHANGED notPodVars

\* lines 551-569: write the packet, advance the position by the frames written
DecodeWrite(e) ==
    /\ thr[e].pc = "write"
    /\ LET w == write(eng[e].ring, thr[e].pcm)
           frames == w.ret \div OutChannels
           inc_ms == (frames * 1000) \div DeviceSampleRate
       IN  eng' = [eng EXCEPT ![e].ring = w.rb,
                              ![e].position_ms =
                                  IF eng[e].playing THEN @ + inc_ms ELSE @]
    /\ thr' = [thr EXCEPT ![e].pcm = << >>, ![e].pc = "check_stop"]
    /\ UNCHANGED <<state, status_position_ms, loaded, engine, last_source, api, seekHist>>
    /\ UNCHANGED notPodVars

\* lines 580-584: take the stream out of the holder and drop it
DecodeCleanup(e) ==
    /\ thr[e].pc = "cleanup"
    /\ eng' = [eng EXCEPT ![e].audio_stream = FALSE]
    /\ thr' = [thr EXCEPT ![e].pc = "exit_state"]
    /\ UNCHANGED <<state, status_position_ms, loaded, engine, last_source, api, seekHist>>
    /\ UNCHANGED notPodVars

\* line 586
DecodeExitState(e) ==
    /\ thr[e].pc = "exit_state"
    /\ state' = "Stopped"
    /\ thr' = [thr EXCEPT ![e].pc = "exit_playing"]
    /\ UNCHANGED <<status_position_ms, loaded, engine, last_source, eng, api, seekHist>>
    /\ UNCHANGED notPodVars

\* lines 587-588; an engine nobody holds any more goes with its last thread
DecodeExitPlaying(e) ==
    /\ thr[e].pc = "exit_playing"
    /\ IF engine # e /\ api.cur # e
          THEN /\ eng' = [eng EXCEPT ![e] = EngineNone]
               /\ thr' = [thr EXCEPT ![e] = ThreadNone]
               /\ seekHist' = [seekHist EXCEPT ![e] = SeekHistNone]
          ELSE /\ eng' = [eng EXCEPT ![e].playing = FALSE]
               /\ thr' = [thr EXCEPT ![e] = ThreadDone]
               /\ UNCHANGED seekHist
    /\ UNCHANGED <<state, status_position_ms, loaded, engine, last_source, api>>
    /\ UNCHANGED notPodVars

\* lines 483-496: the output callback of engine e's stream, while playing
RenderCallback(e) ==
    /\ eng[e].audio_stream
    /\ eng[e].playing
    /\ eng' = [eng EXCEPT ![e].ring = read(@, CallbackLen).rb]
    /\ UNCHANGED <<state, status_position_ms, loaded, engine, last_source, thr, api,
                   seekHist>>
    /\ UNCHANGED notPodVars

\* ---- PodiumPlayer API calls; with_player_mut serialises them on the registry
\* lock, so one call runs at a time, interleaved with the decode threads

\* load_file / load_url, lines 90-98 (104-112): state Loading, status reset
CallLoad ==
    /\ api.pc = "idle"
    /\ \E src \in Sources :
        api' = [ApiIdle EXCEPT !.pc = "start_engine", !.op = "load", !.src = src]
    /\ state' = "Loading"
    /\ status_position_ms' = 0
    /\ loaded' = TRUE
    /\ UNCHANGED <<engine, last_source, eng, thr, seekHist>>
    /\ UNCHANGED notPodVars

\* start_engine lines 56-64: the engine runs the same source, only seek it
StartEngineReuse ==
    /\ api.pc = "start_engine"
    /\ engine # 0
    /\ last_source = api.src
    /\ api' = [api EXCEPT !.pc = "seek_clear", !.cur = engine]
    /\ UNCHANGED <<state, status_position_ms, loaded, engine, last_source, eng, thr,
                   seekHist>>
    /\ UNCHANGED notPodVars

\* the old engine dropped without engine.stop(): its thread and stream live on
StartEngineReplace_nostop ==
    /\ api.pc = "start_engine"
    /\ engine # 0
    /\ last_source # api.src
    /\ engine' = 0
    /\ api' = [api EXCEPT !.pc = "new_engine"]
    /\ UNCHANGED <<state, status_position_ms, loaded, last_source, eng, thr, seekHist>>
    /\ UNCHANGED notPodVars

\* start_engine lines 67-69: take the old engine out and stop it first
StartEngineReplace ==
    /\ api.pc = "start_engine"
    /\ engine # 0
    /\ last_source # api.src
    /\ engine' = 0
    /\ api' = [api EXCEPT !.pc = "stop_playing", !.cur = engine]
    /\ UNCHANGED <<state, status_position_ms, loaded, last_source, eng, thr, seekHist>>
    /\ UNCHANGED notPodVars

\* start_engine with no engine held: straight to line 75
StartEngineFresh ==
    /\ api.pc = "start_engine"
    /\ engine = 0
    /\ api' = [api EXCEPT !.pc = "new_engine"]
    /\ UNCHANGED <<state, status_position_ms, loaded, engine, last_source, eng, thr,
                   seekHist>>
    /\ UNCHANGED notPodVars

\* PlaybackEngine::stop line 370
StopPlaying ==
    /\ api.pc = "stop_playing"
    /\ eng' = [eng EXCEPT ![api.cur].playing = FALSE]
    /\ api' = [api EXCEPT !.pc = "stop_stream"]
    /\ UNCHANGED <<state, status_position_ms, loaded, engine, last_source, thr, seekHist>>
    /\ UNCHANGED notPodVars

\* PlaybackEngine::stop lines 373-378: take the stream, pause and drop it
StopStream ==
    /\ api.pc = "stop_stream"
    /\ eng' = [eng EXCEPT ![api.cur].audio_stream = FALSE]
    /\ api' = [api EXCEPT !.pc = "stop_flag"]
    /\ UNCHANGED <<state, status_position_ms, loaded, engine, last_source, thr, seekHist>>
    /\ UNCHANGED notPodVars

\* PlaybackEngine::stop line 381
StopFlag ==
    /\ api.pc = "stop_flag"
    /\ eng' = [eng EXCEPT ![api.cur].stop_flag = TRUE]
    /\ api' = [api EXCEPT !.pc = "stop_join"]
    /\ UNCHANGED <<state, status_position_ms, loaded, engine, last_source, thr, seekHist>>
    /\ UNCHANGED notPodVars

\* where the call goes on after engine.stop(); load drops the stopped engine
AfterStop ==
    IF api.op = "stop" THEN "stop_finish"
    ELSE IF api.op = "release" THEN "release_finish"
    ELSE "new_engine"

\* PlaybackEngine::stop lines 384-387: join the thread if the handle is still held;
\* start_engine line 71 then drops the engine
StopJoin ==
    /\ api.pc = "stop_join"
    /\ eng[api.cur].handle => thr[api.cur].pc = "done"
    /\ IF AfterStop = "new_engine"
          THEN /\ eng' = [eng EXCEPT ![api.cur] = [EngineNone EXCEPT !.stop_flag = TRUE]]
               /\ thr' = [thr EXCEPT ![api.cur] = ThreadDone]
               /\ seekHist' = [seekHist EXCEPT ![api.cur] = SeekHistNone]
               /\ api' = [api EXCEPT !.pc = AfterStop, !.cur = 0]
          ELSE /\ eng' = [eng EXCEPT ![api.cur].handle = FALSE]
               /\ api' = [api EXCEPT !.pc = AfterStop]
               /\ UNCHANGED <<thr, seekHist>>
    /\ UNCHANGED <<state, status_position_ms, loaded, engine, last_source>>
    /\ UNCHANGED notPodVars

\* start_engine lines 80-81: remember the source, PlaybackEngine::new spawns the thread
NewEngine ==
    /\ api.pc = "new_engine"
    /\ \E e \in Slots :
        /\ SlotFree(e)
        /\ \A f \in Slots : SlotFree(f) => e <= f
        /\ eng' = [eng EXCEPT ![e] = EngineNew]
        /\ thr' = [thr EXCEPT ![e] = [ThreadNone EXCEPT !.pc = "open"]]
        /\ seekHist' = [seekHist EXCEPT ![e] = SeekHistNone]
        /\ api' = [api EXCEPT !.pc = "seek_clear", !.cur = e]
    /\ last_source' = api.src
    /\ UNCHANGED <<state, status_position_ms, loaded, engine>>
    /\ UNCHANGED notPodVars

\* seek_to line 401
SeekClear ==
    /\ api.pc = "seek_clear"
    /\ eng' = [eng EXCEPT ![api.cur].ring = clear(@)]
    /\ api' = [api EXCEPT !.pc = "seek_pos"]
    /\ UNCHANGED <<state, status_position_ms, loaded, engine, last_source, thr, seekHist>>
    /\ UNCHANGED notPodVars

\* seek_to line 402
SeekPos ==
    /\ api.pc = "seek_pos"
    /\ eng' = [eng EXCEPT ![api.cur].position_ms = api.ms]
    /\ api' = [api EXCEPT !.pc = "seek_store"]
    /\ UNCHANGED <<state, status_position_ms, loaded, engine, last_source, thr, seekHist>>
    /\ UNCHANGED notPodVars

\* seek_to line 403; start_engine line 83 keeps the engine
SeekStore ==
    /\ api.pc = "seek_store"
    /\ eng' = [eng EXCEPT ![api.cur].seek_request = api.ms]
    /\ seekHist' = [seekHist EXCEPT
                       ![api.cur].superseded = (seekHist[api.cur].pending \notin {NoSeek, api.ms}),
                       ![api.cur].pending = api.ms,
                       ![api.cur].after_exit = ThreadExited(api.cur)]
    /\ engine' = api.cur
    /\ api' = [api EXCEPT !.pc = IF api.op = "load" THEN "load_ready" ELSE "seek_finish"]
    /\ UNCHANGED <<state, status_position_ms, loaded, last_source, thr>>
    /\ UNCHANGED notPodVars

\* load_file lines 100-101
LoadReady ==
    /\ api.pc = "load_ready"
    /\ state' = "Ready"
    /\ Return("ok")
    /\ UNCHANGED <<status_position_ms, loaded, engine, last_source, eng, thr, seekHist>>
    /\ UNCHANGED notPodVars

\* play lines 140-143: ensure_loaded, then the playing flag
CallPlay ==
    /\ api.pc = "idle"
    /\ api' = IF ~loaded THEN ApiIdle
              ELSE [ApiIdle EXCEPT !.pc = "play_flag", !.op = "play"]
    /\ UNCHANGED <<state, status_position_ms, loaded, engine, last_source, eng, thr,
                   seekHist>>
    /\ UNCHANGED notPodVars

\* play lines 141-143
PlayFlag ==
    /\ api.pc = "play_flag"
    /\ eng' = IF engine # 0 THEN [eng EXCEPT ![engine].playing = TRUE] ELSE eng
    /\ api' = [api EXCEPT !.pc = "play_state"]
    /\ UNCHANGED <<state, status_position_ms, loaded, engine, last_source, thr, seekHist>>
    /\ UNCHANGED notPodVars

\* play lines 144-146
PlayState ==
    /\ api.pc = "play_state"
    /\ state' = "Playing"
    /\ Return("ok")
    /\ UNCHANGED <<status_position_ms, loaded, engine, last_source, eng, thr, seekHist>>
    /\ UNCHANGED notPodVars

\* pause lines 149-153
CallPause ==
    /\ api.pc = "idle"
    /\ api' = [ApiIdle EXCEPT !.pc = "pause_flag", !.op = "pause"]
    /\ UNCHANGED <<state, status_position_ms, loaded, engine, last_source, eng, thr,
                   seekHist>>
    /\ UNCHANGED notPodVars

\* pause lines 151-153
PauseFlag ==
    /\ api.pc = "pause_flag"
    /\ eng' = IF engine # 0 THEN [eng EXCEPT ![engine].playing = FALSE] ELSE eng
    /\ api' = [api EXCEPT !.pc = "pause_state"]
    /\ UNCHANGED <<state, status_position_ms, loaded, engine, last_source, thr, seekHist>>
    /\ UNCHANGED notPodVars

\* pause lines 154-155
PauseState ==
    /\ api.pc = "pause_state"
    /\ state' = "Paused"
    /\ Return("ok")
    /\ UNCHANGED <<status_position_ms, loaded, engine, last_source, eng, thr, seekHist>>
    /\ UNCHANGED notPodVars

\* stop lines 158-162
CallStop ==
    /\ api.pc = "idle"
    /\ api' = [ApiIdle EXCEPT !.pc = IF engine # 0 THEN "stop_playing" ELSE "stop_finish",
                              !.op = "stop", !.cur = engine]
    /\ UNCHANGED <<state, status_position_ms, loaded, engine, last_source, eng, thr,
                   seekHist>>
    /\ UNCHANGED notPodVars

\* stop lines 163-168
StopFinish ==
    /\ api.pc = "stop_finish"
    /\ state' = "Stopped"
    /\ status_position_ms' = 0
    /\ eng' = IF engine # 0 THEN [eng EXCEPT ![engine].position_ms = 0] ELSE eng
    /\ Return("ok")
    /\ UNCHANGED <<loaded, engine, last_source, thr, seekHist>>
    /\ UNCHANGED notPodVars

\* seek lines 171-175, 180-183
CallSeek ==
    /\ api.pc = "idle"
    /\ \E ms \in SeekTargets :
        api' = IF ~loaded \/ last_source = "none" THEN ApiIdle
               ELSE [ApiIdle EXCEPT !.pc = "start_engine", !.op = "seek",
                                    !.src = last_source, !.ms = ms]
    /\ UNCHANGED <<state, status_position_ms, loaded, engine, last_source, eng, thr,
                   seekHist>>
    /\ UNCHANGED notPodVars

\* seek lines 176-179
SeekFinish ==
    /\ api.pc = "seek_finish"
    /\ status_position_ms' = api.ms
    /\ state' = "Ready"
    /\ Return("ok")
    /\ UNCHANGED <<loaded, engine, last_source, eng, thr, seekHist>>
    /\ UNCHANGED notPodVars

\* release lines 229-234
CallRelease ==
    /\ api.pc = "idle"
    /\ loaded' = FALSE
    /\ engine' = 0
    /\ api' = [ApiIdle EXCEPT !.pc = IF engine # 0 THEN "stop_playing" ELSE "release_finish",
                              !.op = "release", !.cur = engine]
    /\ UNCHANGED <<state, status_position_ms, last_source, eng, thr, seekHist>>
    /\ UNCHANGED notPodVars

\* release lines 234-236: the stopped engine goes out of scope, state Idle
ReleaseFinish ==
    /\ api.pc = "release_finish"
    /\ state' = "Idle"
    /\ IF api.cur # 0
          THEN /\ eng' = [eng EXCEPT ![api.cur] =
                            IF ThreadAlive(api.cur) THEN @ ELSE EngineNone]
               /\ thr' = [thr EXCEPT ![api.cur] =
                            IF ThreadAlive(api.cur) THEN @ ELSE ThreadNone]
               /\ seekHist' = [seekHist EXCEPT ![api.cur] =
                            IF ThreadAlive(api.cur) THEN @ ELSE SeekHistNone]
          ELSE UNCHANGED <<eng, thr, seekHist>>
    /\ Return("ok")
    /\ UNCHANGED <<status_position_ms, loaded, engine, last_source>>
    /\ UNCHANGED notPodVars

DecodeStep(e) ==
    \/ DecodeOpen(e) \/ DecodeDevice(e) \/ DecodeInitPlaying(e) \/ DecodeInitState(e)
    \/ DecodeCheckStop(e) \/ DecodeThrottle(e) \/ DecodeSwap(e) \/ DecodeReseek(e)
    \/ DecodeNext(e) \/ DecodeWrite(e) \/ DecodeCleanup(e) \/ DecodeExitState(e)
    \/ DecodeExitPlaying(e)

ApiStep ==
    \/ CallLoad \/ StartEngineReuse \/ StartEngineReplace \/ StartEngineFresh
    \/ StopPlaying \/ StopStream \/ StopFlag \/ StopJoin \/ NewEngine
    \/ SeekClear \/ SeekPos \/ SeekStore \/ LoadReady
    \/ CallPlay \/ PlayFlag \/ PlayState
    \/ CallPause \/ PauseFlag \/ PauseState
    \/ CallStop \/ StopFinish
    \/ CallSeek \/ SeekFinish
    \/ CallRelease \/ ReleaseFinish

\* ------------------------------------------------------------------------
\* Bounds of the DesktopAudioPlayer model
\* ------------------------------------------------------------------------
\* capacity of the ring a DesktopAudioPlayer starts with (RING_BUFFER_SIZE, scaled)
DeskRingSize == 5
\* capacity optimize_buffer_size picks for the track
DeskTrackRingSize == 4
\* packets in a track
DeskNumPackets == 3
\* interleaved samples decode_next returns per packet
DeskPacketLen == 2
\* samples the output device asks for per callback
DeskCallbackLen == 2
\* samples prebuffer wants in the ring before it returns (PRE_BUFFER_MS, scaled)
DeskPrebufferTarget == 2
\* largest seek target, in ms
DeskMaxSeekMs == 1

\* ------------------------------------------------------------------------
\* DesktopAudioPlayer (rust-audio-player/src/desktop/mod.rs)
\* ------------------------------------------------------------------------
\* decoder: None
NoDecoder == 0 - 1

DeskSeekTargets == 0..DeskMaxSeekMs

\* DesktopAudioPlayer::new; decoder is the packet decode_next returns next
DeskNew ==
    [state |-> "Idle", is_playing |-> FALSE, stop_decoder |-> FALSE,
     decoder_thread |-> FALSE, audio_stream |-> "none",
     ring_buffer |-> new(DeskRingSize), sample_count |-> 0, decoder |-> NoDecoder]

\* no decoder thread; locked: the thread holds the ring-buffer mutex
DeskThreadNone ==
    [pc |-> "none", samples |-> << >>, written |-> 0, locked |-> FALSE, sleep_ms |-> 0]

DeskThreadDone == [DeskThreadNone EXCEPT !.pc = "done"]

\* no StateChanged event dispatched by the call
NoEvent == [old_state |-> "none", new_state |-> "none", was |-> "none", entered |-> "none"]

\* CallbackEvent::StateChanged as dispatched, with the state the player was in
\* before the set_state that precedes the dispatch and the one it entered
StateChanged(old_state, new_state, was, entered) ==
    [old_state |-> old_state, new_state |-> new_state, was |-> was, entered |-> entered]

\* current_state: the state play() read at its top; event: the last
\* StateChanged the call in progress, or the last one finished, dispatched
DeskApiIdle ==
    [pc |-> "idle", op |-> "none", ms |-> 0, was_playing |-> FALSE,
     current_state |-> "none", event |-> NoEvent]

\* the samples decode_next returns for packet p
DeskSamples(p) == [i \in 1..DeskPacketLen |-> p + 1]

\* AudioDecoder::seek(position_ms): the packet holding the sample position, or
\* NoDecoder when the format reader rejects a position past the end
decoder_seek(position_ms) ==
    LET sample_position == (position_ms * TrackSampleRate) \div 1000
        packet == sample_position \div (DeskPacketLen \div OutChannels)
    IN  IF packet <= DeskNumPackets THEN packet ELSE NoDecoder

\* prebuffer: decode and write packets until the target is buffered, a write is
\* cut short or the track ends
RECURSIVE prebuffer(_, _, _)
prebuffer(pos, b, total_buffered) ==
    IF total_buffered >= DeskPrebufferTarget \/ pos >= DeskNumPackets
        THEN [decoder |-> pos, rb |-> b]
        ELSE LET w == write_legacy(b, DeskSamples(pos))
             IN  IF w.ret < DeskPacketLen
                     THEN [decoder |-> pos + 1, rb |-> w.rb]
                     ELSE prebuffer(pos + 1, w.rb, total_buffered + w.ret)

\* the sleep of the write-retry loop, by fullness
backoff_sleep_ms(b) ==
    IF fullness_gt(b, 9, 10) THEN 15
    ELSE IF fullness_gt(b, 7, 10) THEN 10
    ELSE 5

DeskInit ==
    /\ desk = DeskNew
    /\ dthr = DeskThreadNone
    /\ dapi = DeskApiIdle

\* the desktop player's variables while another machine runs
DeskParked == DeskInit

\* ---- the decoder thread of start_decoder_thread, lines 159-250

\* lines 165-168: the stop flag is polled at the top of each iteration
DeskCheckStop ==
    /\ dthr.pc = "check_stop"
    /\ dthr' = [dthr EXCEPT !.pc = IF desk.stop_decoder THEN "done" ELSE "check_playing"]
    /\ UNCHANGED <<desk, dapi>>
    /\ UNCHANGED notDeskVars

\* lines 170-173: not playing: sleep 10 ms, continue
DeskCheckPlaying ==
    /\ dthr.pc = "check_playing"
    /\ dthr' = [dthr EXCEPT !.pc = IF desk.is_playing THEN "decode" ELSE "check_stop"]
    /\ UNCHANGED <<desk, dapi>>
    /\ UNCHANGED notDeskVars

\* lines 176-196: decode_next under the decoder lock: a packet, the end of the
\* track, a decoding error, or no decoder at all (the thread returns)
DeskDecode ==
    /\ dthr.pc = "decode"
    /\ \/ /\ desk.decoder = NoDecoder
          /\ dthr' = DeskThreadDone
          /\ UNCHANGED desk
       \/ /\ desk.decoder # NoDecoder
          /\ desk.decoder < DeskNumPackets
          /\ dthr' = [dthr EXCEPT !.pc = "write", !.samples = DeskSamples(desk.decoder),
                                  !.written = 0]
          /\ desk' = [desk EXCEPT !.decoder = @ + 1]
       \/ /\ desk.decoder = DeskNumPackets
          /\ dthr' = [dthr EXCEPT !.pc = "completed"]
          /\ UNCHANGED desk
       \/ /\ desk.decoder # NoDecoder
          /\ desk.decoder < DeskNumPackets
          /\ dthr' = [dthr EXCEPT !.pc = "error_state"]
          /\ desk' = [desk EXCEPT !.is_playing = FALSE]
    /\ UNCHANGED dapi
    /\ UNCHANGED notDeskVars

\* lines 190-191: state Error, the thread returns
DeskErrorState ==
    /\ dthr.pc = "error_state"
    /\ desk' = [desk EXCEPT !.state = "Error"]
    /\ dthr' = DeskThreadDone
    /\ UNCHANGED dapi
    /\ UNCHANGED notDeskVars

\* lines 201-224, one pass of the write-retry loop under the ring-buffer lock:
\* everything written: leave the loop; nothing fits: drop the lock and sleep;
\* else count what was written and go round again with the lock held
DeskWrite ==
    /\ dthr.pc = "write"
    /\ LET rest == SubSeq(dthr.samples, dthr.written + 1, Len(dthr.samples))
           w == write_legacy(desk.ring_buffer, rest)
       IN  IF dthr.written >= Len(dthr.samples)
               THEN /\ dthr' = [DeskThreadNone EXCEPT !.pc = "check_stop"]
                    /\ UNCHANGED desk
           ELSE IF w.ret = 0
               THEN /\ dthr' = [dthr EXCEPT !.pc = "backoff", !.locked = FALSE,
                                            !.sleep_ms = backoff_sleep_ms(desk.ring_buffer)]
                    /\ UNCHANGED desk
           ELSE /\ dthr' = [dthr EXCEPT !.written = @ + w.ret, !.locked = TRUE]
                /\ desk' = [desk EXCEPT !.ring_buffer = w.rb]
    /\ UNCHANGED dapi
    /\ UNCHANGED notDeskVars

\* lines 220-221: the sleep is over, take the lock and try again; the stop flag
\* is not looked at here
DeskBackoff ==
    /\ dthr.pc = "backoff"
    /\ dthr' = [dthr EXCEPT !.pc = "write", !.sleep_ms = 0]
    /\ UNCHANGED <<desk, dapi>>
    /\ UNCHANGED notDeskVars

\* lines 241-245, playback completed: playing flag off, state Stopped, break
DeskCompleted ==
    /\ dthr.pc = "completed"
    /\ desk' = [desk EXCEPT !.is_playing = FALSE, !.state = "Stopped"]
    /\ dthr' = DeskThreadDone
    /\ UNCHANGED dapi
    /\ UNCHANGED notDeskVars

\* lines 107-133, the output callback: silence while not playing, else read from
\* the ring under its lock and count the frames
DeskCallback ==
    /\ desk.audio_stream = "playing"
    /\ desk.is_playing
    /\ ~dthr.locked
    /\ LET r == read_legacy(desk.ring_buffer, DeskCallbackLen)
       IN  desk' = [desk EXCEPT !.ring_buffer = r.rb,
                                !.sample_count = @ + (r.ret \div OutChannels)]
    /\ UNCHANGED <<dthr, dapi>>
    /\ UNCHANGED notDeskVars

\* ---- the API calls (&mut self: one at a time)

\* where a call goes on after stop_decoder_thread
DeskAfterStop == IF dapi.op = "load" THEN "load_finish" ELSE "stop_finish"

\* load_file lines 363-370: state Loading, playing flag off
DeskCallLoad ==
    /\ dapi.pc = "idle"
    /\ desk' = [desk EXCEPT !.state = "Loading", !.is_playing = FALSE]
    /\ dapi' = [DeskApiIdle EXCEPT
                   !.pc = "stop_thread", !.op = "load",
                   !.event = StateChanged("Idle", "Loading", desk.state, "Loading")]
    /\ UNCHANGED dthr
    /\ UNCHANGED notDeskVars

\* stop_decoder_thread lines 256-257: with a handle held, set the stop flag
DeskStopThread ==
    /\ dapi.pc = "stop_thread"
    /\ IF desk.decoder_thread
          THEN /\ desk' = [desk EXCEPT !.stop_decoder = TRUE]
               /\ dapi' = [dapi EXCEPT !.pc = "join"]
          ELSE /\ dapi' = [dapi EXCEPT !.pc = DeskAfterStop]
               /\ UNCHANGED desk
    /\ UNCHANGED dthr
    /\ UNCHANGED notDeskVars

\* stop_decoder_thread lines 258-260: take the handle and join: returns when
\* the thread has ended
DeskJoin ==
    /\ dapi.pc = "join"
    /\ dthr.pc = "done"
    /\ desk' = [desk EXCEPT !.decoder_thread = FALSE]
    /\ dthr' = DeskThreadNone
    /\ dapi' = [dapi EXCEPT !.pc = DeskAfterStop]
    /\ UNCHANGED notDeskVars

\* load_file lines 371-394: clear, open the decoder (the file may not open: the
\* call returns in state Loading), new stream, optimize_buffer_size, prebuffer,
\* state Ready
DeskLoadFinish ==
    /\ dapi.pc = "load_finish"
    /\ \/ /\ desk' = [desk EXCEPT !.ring_buffer = clear(@), !.sample_count = 0]
          /\ dapi' = [DeskApiIdle EXCEPT !.event = dapi.event]
       \/ LET p == prebuffer(0, resize(clear(desk.ring_buffer), DeskTrackRingSize), 0)
          IN  /\ desk' = [desk EXCEPT !.ring_buffer = p.rb, !.sample_count = 0,
                                      !.decoder = p.decoder, !.audio_stream = "built",
                                      !.state = "Ready"]
              /\ dapi' = [DeskApiIdle EXCEPT
                             !.event = StateChanged("Loading", "Ready", desk.state, "Ready")]
    /\ UNCHANGED dthr
    /\ UNCHANGED notDeskVars

\* play lines 473-483, start_decoder_thread 145-252: only from Ready or Paused;
\* spawn the decoder thread unless a handle is held
DeskCallPlay ==
    /\ dapi.pc = "idle"
    /\ IF desk.state \notin {"Ready", "Paused"}
          THEN UNCHANGED <<desk, dthr, dapi>>
          ELSE /\ dapi' = [DeskApiIdle EXCEPT !.pc = "play_flag", !.op = "play",
                                              !.current_state = desk.state]
               /\ IF desk.decoder_thread
                     THEN UNCHANGED <<desk, dthr>>
                     ELSE /\ desk' = [desk EXCEPT !.stop_decoder = FALSE,
                                                  !.decoder_thread = TRUE]
                          /\ dthr' = [DeskThreadNone EXCEPT !.pc = "check_stop"]
    /\ UNCHANGED notDeskVars

\* play line 487
DeskPlayFlag ==
    /\ dapi.pc = "play_flag"
    /\ desk' = [desk EXCEPT !.is_playing = TRUE]
    /\ dapi' = [dapi EXCEPT !.pc = "play_finish"]
    /\ UNCHANGED dthr
    /\ UNCHANGED notDeskVars

\* play lines 490-503: start the stream, state Playing; without a stream the
\* call fails here
DeskPlayFinish ==
    /\ dapi.pc = "play_finish"
    /\ desk' = IF desk.audio_stream = "none" THEN desk
               ELSE [desk EXCEPT !.audio_stream = "playing", !.state = "Playing"]
    /\ dapi' = IF desk.audio_stream = "none" THEN DeskApiIdle
               ELSE [DeskApiIdle EXCEPT
                        !.event = StateChanged(dapi.current_state, "Playing",
                                               desk.state, "Playing")]
    /\ UNCHANGED dthr
    /\ UNCHANGED notDeskVars

\* pause lines 512-519: only from Playing; playing flag off
DeskCallPause ==
    /\ dapi.pc = "idle"
    /\ IF desk.state # "Playing"
          THEN UNCHANGED <<desk, dapi>>
          ELSE /\ desk' = [desk EXCEPT !.is_playing = FALSE]
               /\ dapi' = [DeskApiIdle EXCEPT !.pc = "pause_finish", !.op = "pause"]
    /\ UNCHANGED dthr
    /\ UNCHANGED notDeskVars

\* pause lines 521-532: pause the stream, state Paused
DeskPauseFinish ==
    /\ dapi.pc = "pause_finish"
    /\ desk' = [desk EXCEPT !.audio_stream = IF @ = "none" THEN @ ELSE "paused",
                            !.state = "Paused"]
    /\ dapi' = [DeskApiIdle EXCEPT
                   !.event = StateChanged("Playing", "Paused", desk.state, "Paused")]
    /\ UNCHANGED dthr
    /\ UNCHANGED notDeskVars

\* stop line 541
DeskCallStop ==
    /\ dapi.pc = "idle"
    /\ desk' = [desk EXCEPT !.is_playing = FALSE]
    /\ dapi' = [DeskApiIdle EXCEPT !.pc = "stop_thread", !.op = "stop"]
    /\ UNCHANGED dthr
    /\ UNCHANGED notDeskVars

\* stop lines 544-558: pause the stream, clear the ring, state Stopped, and the
\* event whose old_state is read from the container after that; release goes on
\* from here
DeskStopFinish ==
    /\ dapi.pc = "stop_finish"
    /\ desk' = [desk EXCEPT !.audio_stream = IF @ = "none" THEN @ ELSE "paused",
                            !.ring_buffer = clear(@),
                            !.sample_count = 0,
                            !.state = "Stopped"]
    /\ LET event == StateChanged("Stopped", "Stopped", desk.state, "Stopped")
       IN  dapi' = IF dapi.op = "release"
                       THEN [dapi EXCEPT !.pc = "release_finish", !.event = event]
                       ELSE [DeskApiIdle EXCEPT !.event = event]
    /\ UNCHANGED dthr
    /\ UNCHANGED notDeskVars

\* release line 658: stop() first
DeskCallRelease ==
    /\ dapi.pc = "idle"
    /\ desk' = [desk EXCEPT !.is_playing = FALSE]
    /\ dapi' = [DeskApiIdle EXCEPT !.pc = "stop_thread", !.op = "release"]
    /\ UNCHANGED dthr
    /\ UNCHANGED notDeskVars

\* release lines 659-662: no handle is left to join; drop stream and decoder,
\* state Idle
DeskReleaseFinish ==
    /\ dapi.pc = "release_finish"
    /\ desk' = [desk EXCEPT !.audio_stream = "none", !.decoder = NoDecoder,
                            !.state = "Idle"]
    /\ dapi' = DeskApiIdle
    /\ UNCHANGED dthr
    /\ UNCHANGED notDeskVars

\* seek lines 567-572: remember the playing flag and switch it off
DeskCallSeek ==
    /\ dapi.pc = "idle"
    /\ \E ms \in DeskSeekTargets :
        dapi' = [DeskApiIdle EXCEPT !.pc = "seek_apply", !.op = "seek", !.ms = ms,
                                    !.was_playing = desk.is_playing]
    /\ desk' = [desk EXCEPT !.is_playing = FALSE]
    /\ UNCHANGED dthr
    /\ UNCHANGED notDeskVars

\* seek lines 574-584: clear the ring under its lock, seek the decoder, set the
\* sample count; without a decoder or with the seek rejected the call fails here
DeskSeekApply ==
    /\ dapi.pc = "seek_apply"
    /\ ~dthr.locked
    /\ IF desk.decoder = NoDecoder \/ decoder_seek(dapi.ms) = NoDecoder
          THEN /\ desk' = [desk EXCEPT !.ring_buffer = clear(@)]
               /\ dapi' = DeskApiIdle
          ELSE /\ desk' = [desk EXCEPT !.ring_buffer = clear(@),
                                       !.decoder = decoder_seek(dapi.ms),
                                       !.sample_count = (dapi.ms * TrackSampleRate) \div 1000]
               /\ dapi' = [dapi EXCEPT !.pc = "seek_restore"]
    /\ UNCHANGED dthr
    /\ UNCHANGED notDeskVars

\* seek lines 586-591
DeskSeekRestore ==
    /\ dapi.pc = "seek_restore"
    /\ desk' = [desk EXCEPT !.is_playing = IF dapi.was_playing THEN TRUE ELSE @]
    /\ dapi' = DeskApiIdle
    /\ UNCHANGED dthr
    /\ UNCHANGED notDeskVars

DeskThreadStep ==
    \/ DeskCheckStop \/ DeskCheckPlaying \/ DeskDecode \/ DeskErrorState
    \/ DeskWrite \/ DeskBackoff \/ DeskCompleted

\* the steps inside an API call, after its first
DeskApiBody ==
    \/ DeskStopThread \/ DeskJoin \/ DeskLoadFinish \/ DeskPlayFlag \/ DeskPlayFinish
    \/ DeskPauseFinish \/ DeskStopFinish \/ DeskReleaseFinish
    \/ DeskSeekApply \/ DeskSeekRestore

DeskApiCall ==
    \/ DeskCallLoad \/ DeskCallPlay \/ DeskCallPause \/ DeskCallStop
    \/ DeskCallRelease \/ DeskCallSeek

DeskNext == DeskThreadStep \/ DeskCallback \/ DeskApiBody \/ DeskApiCall

\* ------------------------------------------------------------------------
\* Bounds of the HttpRangeSource model
\* ------------------------------------------------------------------------
\* bytes of the resource the server holds
ResourceSize == 4
\* CHUNK_SIZE, scaled
ChunkSize == 2
\* MAX_CACHE_SIZE of transport-http, scaled
MaxCacheSize == 4
\* the entries http_range_source.rs keeps (20), scaled
MaxCacheEntries == 2
\* largest read buffer
MaxBuf == 2

\* ------------------------------------------------------------------------
\* HttpRangeSource (podium-audio/crates/transport-http/src/range_source.rs,
\* rust-audio-player/src/http_range_source.rs)
\* ------------------------------------------------------------------------
\* total_size: None
NoSize == 0 - 1

\* no Range request sent
NoRequest == [lo |-> 0, hi |-> 0 - 1]

\* positions a caller seeks to or reaches
MaxPosition == ResourceSize + 1

\* HttpRangeState::new and initialize: the size is known when the server told it
HttpNew(kind, total_size) ==
    [kind |-> kind, total_size |-> total_size, current_position |-> 0, cache |-> << >>]

NetNone == [op |-> "new", offset |-> 0, request |-> NoRequest, result |-> 0, error |-> FALSE]

\* the server's answer to "Range: bytes=lo-hi": the number of bytes of the 206
\* body, or NoSize for 416 Range Not Satisfiable (ureq returns an error)
server_range(lo, hi) ==
    IF lo >= ResourceSize \/ hi < lo THEN NoSize
    ELSE Min(hi, ResourceSize - 1) - lo + 1

\* get_from_cache: some entry holds the whole of [offset, offset + size)
get_from_cache(cache, offset, size) ==
    \E i \in 1..Len(cache) :
        /\ offset >= cache[i].offset
        /\ offset + size <= cache[i].offset + cache[i].len

RECURSIVE total_cache_size(_)
total_cache_size(cache) ==
    IF cache = << >> THEN 0 ELSE Head(cache).len + total_cache_size(Tail(cache))

\* transport-http lines 158-162: one entry goes when the bytes exceed the cap
evict_by_size(cache) ==
    IF total_cache_size(cache) > MaxCacheSize THEN Tail(cache) ELSE cache

\* http_range_source.rs lines 179-182: one entry goes when there are too many
evict_by_count(cache) ==
    IF Len(cache) > MaxCacheEntries THEN Tail(cache) ELSE cache

\* what fetch_range answers without a request: data of len bytes
FetchNoRequest(h, len) ==
    [http |-> h, request |-> NoRequest, len |-> len, error |-> FALSE]

\* fetch_range after the request lo-hi: an error, or the body cached and the
\* cache cut the way of the implementation
FetchRequested(h, lo, hi, size) ==
    LET got == server_range(lo, hi)
        pushed == Append(h.cache, [offset |-> lo, len |-> got])
    IN  IF got = NoSize
            THEN [http |-> h, request |-> [lo |-> lo, hi |-> hi], len |-> 0, error |-> TRUE]
            ELSE [http |-> [h EXCEPT !.cache =
                               IF h.kind = "transport-http" THEN evict_by_size(pushed)
                               ELSE evict_by_count(pushed)],
                  request |-> [lo |-> lo, hi |-> hi],
                  len |-> Min(size, got), error |-> FALSE]

\* HttpRangeState::fetch_range of transport-http
fetch_range(h, offset, size) ==
    IF get_from_cache(h.cache, offset, size) THEN FetchNoRequest(h, size)
    ELSE IF h.total_size # NoSize /\ offset >= h.total_size THEN FetchNoRequest(h, 0)
    ELSE LET chunk_size == IF size > ChunkSize THEN size ELSE ChunkSize
             end == IF h.total_size # NoSize
                        THEN Min(offset + chunk_size - 1, h.total_size - 1)
                        ELSE offset + chunk_size - 1
         IN  IF offset > end THEN FetchNoRequest(h, 0)
             ELSE FetchRequested(h, offset, end, size)

\* HttpRangeState::fetch_range of rust-audio-player
fetch_range_legacy(h, offset, size) ==
    IF get_from_cache(h.cache, offset, size) THEN FetchNoRequest(h, size)
    ELSE LET chunk_size == IF size > ChunkSize THEN size ELSE ChunkSize
             end == IF h.total_size # NoSize
                        THEN Min(offset + chunk_size, h.total_size)
                        ELSE offset + chunk_size
         IN  FetchRequested(h, offset, end - 1, size)

\* Read::read with a buffer of size bytes: 0 at a known end, else fetch_range;
\* the position moves on by what was read
http_read(h, size) ==
    IF h.total_size # NoSize /\ h.current_position >= h.total_size
        THEN FetchNoRequest(h, 0)
        ELSE LET f == IF h.kind = "transport-http"
                          THEN fetch_range(h, h.current_position, size)
                          ELSE fetch_range_legacy(h, h.current_position, size)
             IN  [f EXCEPT !.http.current_position = @ + f.len]

HttpInit ==
    /\ \E kind \in {"transport-http", "rust-audio-player"},
          total_size \in {NoSize, ResourceSize} :
            http = HttpNew(kind, total_size)
    /\ net = NetNone

\* the source's variables while another machine runs
HttpParked ==
    /\ http = HttpNew("transport-http", ResourceSize)
    /\ net = NetNone

\* Read::read
HttpRead ==
    /\ \E size \in 1..MaxBuf :
        LET r == http_read(http, size)
        IN  /\ http' = r.http
            /\ net' = [op |-> "read", offset |-> http.current_position,
                       request |-> r.request, result |-> r.len, error |-> r.error]
    /\ UNCHANGED notHttpVars

\* Seek::seek: SeekFrom::Start(pos), Current(offset) or End(offset); below 0
\* transport-http stops at 0 and rust-audio-player fails; End needs the size
HttpSeek ==
    /\ \E whence \in {"Start", "Current", "End"}, offset \in (0 - MaxPosition)..MaxPosition :
        LET base == IF whence = "Start" THEN 0
                    ELSE IF whence = "Current" THEN http.current_position
                    ELSE http.total_size
            wanted == base + offset
            failed == \/ whence = "End" /\ http.total_size = NoSize
                      \/ http.kind = "rust-audio-player" /\ wanted < 0
            new_pos == IF wanted < 0 THEN 0 ELSE wanted
        IN  /\ whence = "Start" => offset >= 0
            /\ failed \/ new_pos <= MaxPosition
            /\ http' = IF failed THEN http ELSE [http EXCEPT !.current_position = new_pos]
            /\ net' = [op |-> "seek", offset |-> http.current_position,
                       request |-> NoRequest,
                       result |-> IF failed THEN 0 ELSE new_pos, error |-> failed]
    /\ UNCHANGED notHttpVars

HttpNext == HttpRead \/ HttpSeek

\* ------------------------------------------------------------------------
\* Bounds of the M4A model.  Lengths and offsets count units of one box header
\* (8 bytes).
\* ------------------------------------------------------------------------
\* a box header
AtomHeaderSize == 1
\* largest box
MaxAtomSize == 3
\* most top-level boxes of a file
MaxAtoms == 3
\* HEADER_SEARCH_SIZE, scaled
HeaderSearchSize == 6
\* TAIL_SEARCH_SIZE, scaled
TailSearchSize == 4
\* entries fetch_with_cache keeps before it drops one (10), scaled
VfsCacheEntries == 1
\* largest read buffer
MaxVfsBuf == 2
\* MOOV_CHECK_SIZE, scaled
MoovCheckSize == 4
\* the bytes SmartM4ASource::new wants before it looks for moov (8192), scaled
MinCheckBytes == 2
\* max_attempts, scaled
MaxAttempts == 2

\* ------------------------------------------------------------------------
\* M4A files: a sequence of boxes [type, size]; byte i of the file has the
\* value i, and box payloads hold no box headers
\* ------------------------------------------------------------------------
AtomTypes == {"ftyp", "moov", "mdat", "free"}

Atoms == [atom_type : AtomTypes, size : AtomHeaderSize..MaxAtomSize]

RECURSIVE FileSize(_)
FileSize(file) == IF file = << >> THEN 0 ELSE Head(file).size + FileSize(Tail(file))

\* offset of box k of the file
AtomOffset(file, k) == FileSize(SubSeq(file, 1, k - 1))

\* the bytes [lo, lo + n) of the file
Bytes(lo, n) == [i \in 1..n |-> lo + i - 1]

NoAtom == [found |-> FALSE, offset |-> 0, size |-> 0]

\* find_atom over the data [start, start + len) of the file, from box k at
\* position pos of the data: parse_atom_header needs a whole header, a box of
\* the wanted type is returned, a box reaching past the data ends the search
RECURSIVE find_atom_from(_, _, _, _, _)
find_atom_from(file, k, pos, len, atom_type) ==
    IF k > Len(file) \/ pos + AtomHeaderSize > len THEN NoAtom
    ELSE IF file[k].atom_type = atom_type
        THEN [found |-> TRUE, offset |-> pos, size |-> file[k].size]
    ELSE IF pos + file[k].size > len THEN NoAtom
    ELSE find_atom_from(file, k + 1, pos + file[k].size, len, atom_type)

\* find_atom: data that starts inside a payload has no header at its start
find_atom(file, start, len, atom_type) ==
    IF \E k \in 1..Len(file) : AtomOffset(file, k) = start
        THEN LET k == CHOOSE j \in 1..Len(file) : AtomOffset(file, j) = start
             IN  find_atom_from(file, k, 0, len, atom_type)
        ELSE NoAtom

\* has_moov_at_start over the first n bytes, from box k at pos: the size test
\* comes before the type test
RECURSIVE has_moov_from(_, _, _, _)
has_moov_from(file, k, pos, n) ==
    IF k > Len(file) \/ pos + AtomHeaderSize > n THEN FALSE
    ELSE IF pos > MoovCheckSize THEN FALSE
    ELSE IF file[k].size < AtomHeaderSize \/ pos + file[k].size > n THEN FALSE
    ELSE IF file[k].atom_type = "moov" THEN TRUE
    ELSE has_moov_from(file, k + 1, pos + file[k].size, n)

has_moov_at_start(file, n) == has_moov_from(file, 1, 0, n)

\* ------------------------------------------------------------------------
\* VirtualFastStartSource (rust-audio-player/src/m4a_virtual_faststart.rs)
\* ------------------------------------------------------------------------
VfsNone ==
    [ok |-> FALSE, tail_fetched |-> FALSE, total_size |-> 0,
     virtual_moov_offset |-> 0, virtual_moov_size |-> 0, moov_data |-> << >>,
     real_moov_offset |-> 0, real_mdat_offset |-> 0, cache |-> << >>,
     position |-> 0, out |-> << >>, sequential |-> TRUE]

\* VirtualFastStartSource::new: ftyp and mdat are looked for in the head of the
\* file, moov in its tail, and the layout is computed from what was found
VirtualFastStartSource_new(file) ==
    LET total_size == FileSize(file)
        header_size == Min(HeaderSearchSize, total_size)
        ftyp == find_atom(file, 0, header_size, "ftyp")
        mdat == find_atom(file, 0, header_size, "mdat")
        tail_start == IF total_size > TailSearchSize THEN total_size - TailSearchSize ELSE 0
        moov == find_atom(file, tail_start, total_size - tail_start, "moov")
        real_moov_offset == tail_start + moov.offset
    IN  IF ~ftyp.found \/ ~mdat.found THEN VfsNone
        ELSE IF ~moov.found THEN [VfsNone EXCEPT !.tail_fetched = TRUE]
        ELSE [ok |-> TRUE, tail_fetched |-> TRUE, total_size |-> total_size,
              virtual_moov_offset |-> ftyp.size, virtual_moov_size |-> moov.size,
              moov_data |-> Bytes(real_moov_offset,
                                  Min(moov.size, total_size - real_moov_offset)),
              real_moov_offset |-> real_moov_offset, real_mdat_offset |-> mdat.offset,
              cache |-> << >>, position |-> 0, out |-> << >>, sequential |-> TRUE]

\* map_virtual_to_real with the mdat branch forgetting the relocated moov
map_virtual_to_real_nomoov(st, virtual_offset) ==
    IF virtual_offset < st.virtual_moov_offset
        THEN [offset |-> virtual_offset, from_moov |-> FALSE]
    ELSE IF virtual_offset < st.virtual_moov_offset + st.virtual_moov_size
        THEN [offset |-> virtual_offset - st.virtual_moov_offset, from_moov |-> TRUE]
    ELSE [offset |-> st.real_mdat_offset + (virtual_offset - st.virtual_moov_offset),
          from_moov |-> FALSE]

\* map_virtual_to_real: the real offset, and whether it is an offset into moov_data
map_virtual_to_real(st, virtual_offset) ==
    IF virtual_offset < st.virtual_moov_offset
        THEN [offset |-> virtual_offset, from_moov |-> FALSE]
    ELSE IF virtual_offset < st.virtual_moov_offset + st.virtual_moov_size
        THEN [offset |-> virtual_offset - st.virtual_moov_offset, from_moov |-> TRUE]
    ELSE [offset |-> st.real_mdat_offset
                        + (virtual_offset - st.virtual_moov_offset - st.virtual_moov_size),
          from_moov |-> FALSE]

\* fetch_with_cache: the bytes of one entry that holds the whole range, else a
\* Range request up to the end of the file (none is satisfiable from the end
\* on), cached after the oldest entry went when there were too many
fetch_with_cache(st, offset, size) ==
    IF \E i \in 1..Len(st.cache) :
            /\ offset >= st.cache[i].offset
            /\ offset + size <= st.cache[i].offset + st.cache[i].len
        THEN [st |-> st, data |-> Bytes(offset, size), error |-> FALSE]
    ELSE LET end == Min(offset + size, st.total_size)
             kept == IF Len(st.cache) > VfsCacheEntries THEN Tail(st.cache) ELSE st.cache
         IN  IF offset >= end
                 THEN [st |-> st, data |-> << >>, error |-> TRUE]
                 ELSE [st |-> [st EXCEPT !.cache =
                                  Append(kept, [offset |-> offset, len |-> end - offset])],
                       data |-> Bytes(offset, end - offset), error |-> FALSE]

\* VirtualFastStartState::read_at with a buffer of size bytes
read_at(st, virtual_offset, size) ==
    LET m == map_virtual_to_real(st, virtual_offset)
    IN  IF m.from_moov
            THEN IF m.offset >= Len(st.moov_data)
                     THEN [st |-> st, data |-> << >>, error |-> FALSE]
                     ELSE [st |-> st,
                           data |-> SubSeq(st.moov_data, m.offset + 1,
                                           m.offset + Min(Len(st.moov_data) - m.offset, size)),
                           error |-> FALSE]
            ELSE LET f == fetch_with_cache(st, m.offset, size)
                 IN  [f EXCEPT !.data = SubSeq(f.data, 1, Min(Len(f.data), size))]

\* files laid out ftyp, mdat, moov
SlowStartFiles ==
    { << [atom_type |-> "ftyp", size |-> f], [atom_type |-> "mdat", size |-> d],
         [atom_type |-> "moov", size |-> m] >> :
        f \in AtomHeaderSize..MaxAtomSize, d \in AtomHeaderSize..MaxAtomSize,
        m \in AtomHeaderSize..MaxAtomSize }

SmartNone ==
    [pc |-> "done", attempts |-> 0, seen |-> 0, variant |-> "none", tail_fetched |-> FALSE,
     checked |-> FALSE, relocation |-> "none", result |-> "none"]

VfsInit ==
    /\ m4file \in SlowStartFiles
    /\ vfs = VirtualFastStartSource_new(m4file)
    /\ smart = SmartNone

\* the M4A variables while another machine runs
M4aParked ==
    /\ m4file = << >>
    /\ vfs = VfsNone
    /\ smart = SmartNone

\* Read::read with a buffer of size bytes: the position moves on by what was
\* read; out collects what sequential reads from position 0 returned
VfsRead ==
    /\ vfs.ok
    /\ \E size \in 1..MaxVfsBuf :
        LET r == read_at(vfs, vfs.position, size)
        IN  vfs' = [r.st EXCEPT !.position = @ + Len(r.data),
                                !.out = IF vfs.sequential THEN @ \o r.data ELSE @]
    /\ UNCHANGED <<m4file, smart>>
    /\ UNCHANGED notM4aVars

\* Seek::seek to new_pos (Start, Current and End all end in one position; a
\* negative one fails and changes nothing)
VfsSeek ==
    /\ vfs.ok
    /\ \E new_pos \in 0..(vfs.total_size + 1) :
        /\ new_pos # vfs.position
        /\ vfs' = [vfs EXCEPT !.position = new_pos,
                              !.out = << >>,
                              !.sequential = (new_pos = 0)]
    /\ UNCHANGED <<m4file, smart>>
    /\ UNCHANGED notM4aVars

VfsNext == VfsRead \/ VfsSeek

\* ------------------------------------------------------------------------
\* SmartM4ASource (rust-audio-player/src/m4a_smart_source.rs)
\* ------------------------------------------------------------------------
M4aFiles ==
    UNION { [1..n -> Atoms] : n \in 1..MaxAtoms }

SmartInit ==
    /\ m4file \in M4aFiles
    /\ vfs = VfsNone
    /\ smart = [SmartNone EXCEPT !.pc = "detect"]

\* SmartSelect with the failure of VirtualFastStartSource::new passed on with ?
SmartSelect_propagate(is_fast_start, n, attempts, checked) ==
    \E network_ok \in BOOLEAN :
        LET v == IF network_ok THEN VirtualFastStartSource_new(m4file) ELSE VfsNone
        IN  /\ is_fast_start => network_ok
            /\ smart' = [pc |-> "done", attempts |-> attempts, seen |-> n,
                         variant |-> IF is_fast_start THEN "FastStart"
                                     ELSE IF v.ok THEN "VirtualFastStart" ELSE "none",
                         tail_fetched |-> ~is_fast_start /\ v.tail_fetched,
                         checked |-> checked,
                         relocation |-> IF is_fast_start THEN "none"
                                        ELSE IF ~network_ok THEN "network"
                                        ELSE IF v.ok THEN "ok" ELSE "no_atom",
                         result |-> IF is_fast_start \/ v.ok THEN "Ok" ELSE "Err"]
            /\ vfs' = IF is_fast_start THEN vfs ELSE v

\* the end of SmartM4ASource::new: FastStart keeps the streaming source, else
\* VirtualFastStartSource::new is tried and its failure falls back to FastStart;
\* every path returns Ok.  checked tells that has_moov_at_start gave the answer,
\* relocation how VirtualFastStartSource::new ended: a request of it may fail
\* (network), a box may be missing (no_atom)
SmartSelect(is_fast_start, n, attempts, checked) ==
    \E network_ok \in BOOLEAN :
        LET v == IF network_ok THEN VirtualFastStartSource_new(m4file) ELSE VfsNone
        IN  /\ is_fast_start => network_ok
            /\ smart' = [pc |-> "done", attempts |-> attempts, seen |-> n,
                         variant |-> IF is_fast_start \/ ~v.ok THEN "FastStart"
                                     ELSE "VirtualFastStart",
                         tail_fetched |-> ~is_fast_start /\ v.tail_fetched,
                         checked |-> checked,
                         relocation |-> IF is_fast_start THEN "none"
                                        ELSE IF ~network_ok THEN "network"
                                        ELSE IF v.ok THEN "ok" ELSE "no_atom",
                         result |-> "Ok"]
            /\ vfs' = IF is_fast_start THEN vfs ELSE v

\* one round of the detection loop: the read fails, or returns the n bytes
\* downloaded so far (never fewer than before, at most the check buffer)
SmartAttempt ==
    /\ smart.pc = "detect"
    /\ \/ SmartSelect(TRUE, smart.seen, smart.attempts, FALSE)
       \/ \E n \in 1..Min(FileSize(m4file), MoovCheckSize) :
            /\ n >= smart.seen
            /\ IF n >= MinCheckBytes
                  THEN SmartSelect(has_moov_at_start(m4file, n), n, smart.attempts, TRUE)
               ELSE IF smart.attempts + 1 >= MaxAttempts
                  THEN SmartSelect(TRUE, n, smart.attempts + 1, FALSE)
               ELSE /\ smart' = [smart EXCEPT !.attempts = @ + 1, !.seen = n]
                    /\ vfs' = vfs
    /\ UNCHANGED m4file
    /\ UNCHANGED notM4aVars

SmartNext == SmartAttempt

\* ------------------------------------------------------------------------
\* Bounds of the CallbackManager model
\* ------------------------------------------------------------------------
\* callbacks registered at a time
MaxListeners == 2
\* largest throttle_ms, in clock ticks
MaxThrottle == 1
\* events passed to dispatch_event
MaxDispatch == 2
\* last clock tick
MaxTime == 2

\* ------------------------------------------------------------------------
\* CallbackManager and ThrottledCallback (rust-audio-player/src/callback.rs)
\* ------------------------------------------------------------------------
\* CallbackEvent: PositionChanged, and two of the six variants that dispatch
\* handles in its other arm
CallbackEvents == {"PositionChanged", "StateChanged", "PlaybackCompleted"}

\* CallbackManager::new at clock 0
CallbackManager_new == [now |-> 0, callbacks |-> << >>, dispatched |-> << >>]

\* ThrottledCallback::new at clock now; since counts the events dispatched
\* before, log is what the inner callback has received
ThrottledCallback_new(update_interval_ms, now, since) ==
    [position_update_interval |-> update_interval_ms, last_position_update |-> now,
     since |-> since, log |-> << >>]

\* inner.on_event(event) for dispatched event number seq, at clock now
on_event(c, event, seq, now) ==
    [c EXCEPT !.log = Append(@, [event |-> event, seq |-> seq, at |-> now])]

\* dispatch that leaves last_position_update as it was
dispatch_nostamp(c, event, seq, now) ==
    IF event = "PositionChanged"
        THEN IF now - c.last_position_update >= c.position_update_interval
                 THEN on_event(c, event, seq, now)
                 ELSE c
        ELSE on_event(c, event, seq, now)

\* dispatch that throttles every event
dispatch_throttle_all(c, event, seq, now) ==
    IF now - c.last_position_update >= c.position_update_interval
        THEN on_event([c EXCEPT !.last_position_update = now], event, seq, now)
        ELSE c

\* ThrottledCallback::dispatch: a PositionChanged goes on when the interval has
\* elapsed since last_position_update, which is then set; any other event goes on
dispatch(c, event, seq, now) ==
    IF event = "PositionChanged"
        THEN IF now - c.last_position_update >= c.position_update_interval
                 THEN on_event([c EXCEPT !.last_position_update = now], event, seq, now)
                 ELSE c
        ELSE on_event(c, event, seq, now)

CbInit == cb = CallbackManager_new

\* the manager while another machine runs
CbParked == cb = CallbackManager_new

\* CallbackManager::add_callback
CbAddCallback ==
    /\ Len(cb.callbacks) < MaxListeners
    /\ \E throttle_ms \in 0..MaxThrottle :
        cb' = [cb EXCEPT !.callbacks =
                  Append(@, ThrottledCallback_new(throttle_ms, cb.now, Len(cb.dispatched)))]
    /\ UNCHANGED notCbVars

\* CallbackManager::clear_callbacks
CbClearCallbacks ==
    /\ cb.callbacks # << >>
    /\ cb' = [cb EXCEPT !.callbacks = << >>]
    /\ UNCHANGED notCbVars

\* CallbackManager::dispatch_event: every callback in turn, under the lock
CbDispatchEvent ==
    /\ Len(cb.dispatched) < MaxDispatch
    /\ \E event \in CallbackEvents :
        cb' = [cb EXCEPT
                  !.dispatched = Append(@, event),
                  !.callbacks = [i \in 1..Len(cb.callbacks) |->
                                    dispatch(cb.callbacks[i], event,
                                             Len(cb.dispatched) + 1, cb.now)]]
    /\ UNCHANGED notCbVars

\* the clock moves on
CbTick ==
    /\ cb.now < MaxTime
    /\ cb' = [cb EXCEPT !.now = @ + 1]
    /\ UNCHANGED notCbVars

CbNext == CbAddCallback \/ CbClearCallbacks \/ CbDispatchEvent \/ CbTick


\* ------------------------------------------------------------------------
\* Volume and playback rate (player-ffi/src/lib.rs 186-207,
\* rust-audio-player/src/desktop/mod.rs 594-615).  An f32 is a number of
\* tenths, or NaN.
\* ------------------------------------------------------------------------
Float(tenths) == [nan |-> FALSE, tenths |-> tenths]

NaN == [nan |-> TRUE, tenths |-> 0]

\* the arguments of the calls: NaN, -0.5, 0.0, 0.5, 1.0, 1.5
FloatArgs == {NaN} \cup {Float(t) : t \in {0 - 5, 0, 5, 10, 15}}

\* a <= b on f32: false when either is NaN
FloatLe(a, b) == ~a.nan /\ ~b.nan /\ a.tenths <= b.tenths

\* (0.0..=1.0).contains(&v)
UnitRangeContains(v) == FloatLe(Float(0), v) /\ FloatLe(v, Float(10))

\* f32::clamp(0.0, 1.0): NaN stays NaN
clamp_unit(v) ==
    IF v.nan THEN v
    ELSE IF v.tenths < 0 THEN Float(0)
    ELSE IF v.tenths > 10 THEN Float(10)
    ELSE v

\* PlaybackStatus::default and DesktopAudioPlayer::new: volume 1.0, rate 1.0
SettingsNew(player) ==
    [player |-> player, volume |-> Float(10), playback_rate |-> Float(10),
     call |-> "none", arg |-> Float(10), result |-> "none"]

\* PodiumPlayer::set_volume: out of range is an error
set_volume(st, volume) ==
    IF ~UnitRangeContains(volume)
        THEN [st EXCEPT !.call = "set_volume", !.arg = volume, !.result = "Err"]
        ELSE [st EXCEPT !.volume = volume,
                        !.call = "set_volume", !.arg = volume, !.result = "Ok"]

\* PodiumPlayer::set_playback_rate: rate <= 0.0 is an error
set_playback_rate(st, rate) ==
    IF FloatLe(rate, Float(0))
        THEN [st EXCEPT !.call = "set_playback_rate", !.arg = rate, !.result = "Err"]
        ELSE [st EXCEPT !.playback_rate = rate,
                        !.call = "set_playback_rate", !.arg = rate, !.result = "Ok"]

\* DesktopAudioPlayer::set_volume: the clamped value is stored
desktop_set_volume(st, volume) ==
    [st EXCEPT !.volume = clamp_unit(volume),
               !.call = "set_volume", !.arg = volume, !.result = "Ok"]

\* DesktopAudioPlayer::set_playback_rate: the value is stored
desktop_set_playback_rate(st, rate) ==
    [st EXCEPT !.playback_rate = rate,
               !.call = "set_playback_rate", !.arg = rate, !.result = "Ok"]

SettingsInit ==
    \E player \in {"PodiumPlayer", "DesktopAudioPlayer"} : settings = SettingsNew(player)

\* the settings while another machine runs
SettingsParked == settings = SettingsNew("PodiumPlayer")

SetVolume ==
    /\ \E volume \in FloatArgs :
        settings' = IF settings.player = "PodiumPlayer"
                        THEN set_volume(settings, volume)
                        ELSE desktop_set_volume(settings, volume)
    /\ UNCHANGED notSettingsVars

SetPlaybackRate ==
    /\ \E rate \in FloatArgs :
        settings' = IF settings.player = "PodiumPlayer"
                        THEN set_playback_rate(settings, rate)
                        ELSE desktop_set_playback_rate(settings, rate)
    /\ UNCHANGED notSettingsVars

SettingsNext == SetVolume \/ SetPlaybackRate


\* ------------------------------------------------------------------------
\* Position accounting of PlaybackEngine::decode_loop (player-ffi/src/lib.rs
\* 528-569) while playing, at the sizes of real streams
\* ------------------------------------------------------------------------
\* packets decoded after a seek
MaxPacketsWritten == 120

\* device sample rates
AcctSampleRates == {44100, 48000}

\* frames of one decoded packet (AAC, MP3)
AcctPacketFrames == {1024, 1152}

\* seek targets in ms
AcctSeekTargets == {1000, 5000}

\* lines 559-562: the increment for the frames of one write
position_inc_ms(frames, sample_rate) == (frames * 1000) \div sample_rate

AcctNew(sample_rate, packet_frames) ==
    [sample_rate |-> sample_rate, packet_frames |-> packet_frames,
     pos_ms |-> 0, base_ms |-> 0, frames_written |-> 0, packets |-> 0]

AcctInit ==
    \E sample_rate \in AcctSampleRates, packet_frames \in AcctPacketFrames :
        acct = AcctNew(sample_rate, packet_frames)

\* the accounting while another machine runs
PosParked == acct = AcctNew(44100, 1024)

\* lines 539-562 with playing set and room in the ring: the packet is written
\* whole and pos_ms.fetch_add(inc_ms)
AcctWritePacket ==
    /\ acct.packets < MaxPacketsWritten
    /\ acct' = [acct EXCEPT
                   !.pos_ms = @ + position_inc_ms(acct.packet_frames, acct.sample_rate),
                   !.frames_written = @ + acct.packet_frames,
                   !.packets = @ + 1]
    /\ UNCHANGED notPosVars

\* lines 530-536: a seek request is taken: pos_ms.store(target_ms)
AcctSeek ==
    /\ \E target_ms \in AcctSeekTargets :
        acct' = [acct EXCEPT !.pos_ms = target_ms, !.base_ms = target_ms,
                             !.frames_written = 0, !.packets = 0]
    /\ UNCHANGED notPosVars

AcctNext == AcctWritePacket \/ AcctSeek


\* ------------------------------------------------------------------------
\* HttpStreamingSource (rust-audio-player/src/streaming_http_source.rs)
\* ------------------------------------------------------------------------
\* bytes of the resource the worker downloads
StreamResourceSize == 4

\* most bytes one reader.read of the worker brings (64 KB, scaled)
StreamChunkSize == 2

\* BUFFER_LOW_WATERMARK, scaled
BufferLowWatermark == 1

\* largest buffer handed to read
MaxStreamBuf == 2

\* HttpStreamState::new with the reader's fields, start_download just called
StreamNew ==
    [buffer |-> << >>, buffer_start_offset |-> 0, total_size |-> NoSize,
     download_position |-> 0, download_complete |-> FALSE, error |-> FALSE,
     worker |-> "request", position |-> 0, last_release_position |-> 0,
     last |-> [op |-> "new", pos |-> 0, data |-> << >>, error |-> FALSE]]

\* HttpStreamState::is_available
is_available(st, pos) ==
    pos >= st.buffer_start_offset /\ pos - st.buffer_start_offset < Len(st.buffer)

\* HttpStreamState::read_at: the bytes copied into a buffer of size bytes
stream_read_at(st, pos, size) ==
    IF pos < st.buffer_start_offset \/ pos - st.buffer_start_offset >= Len(st.buffer)
        THEN << >>
        ELSE LET offset_in_buffer == pos - st.buffer_start_offset
             IN  SubSeq(st.buffer, offset_in_buffer + 1,
                        offset_in_buffer + Min(Len(st.buffer) - offset_in_buffer, size))

\* HttpStreamState::release_before
release_before(st, pos) ==
    LET release_count == Min(pos - st.buffer_start_offset, Len(st.buffer))
    IN  IF pos <= st.buffer_start_offset \/ release_count = 0 THEN st
        ELSE [st EXCEPT !.buffer = SubSeq(@, release_count + 1, Len(@)),
                        !.buffer_start_offset = pos]

\* what wait_for_data returns once it returns: an error, data there, or the
\* download complete without the position; timeout: the deadline passed first
wait_for_data(st, pos, timeout) ==
    IF st.error THEN "error"
    ELSE IF is_available(st, pos) THEN "true"
    ELSE IF st.download_complete THEN "false"
    ELSE IF timeout THEN "error"
    ELSE "waiting"

\* Read::read after wait_for_data returned Ok(true): copy, advance, release the
\* bytes more than the low watermark behind the cursor
stream_read(st, size) ==
    LET data == stream_read_at(st, st.position, size)
        position == st.position + Len(data)
        release_pos == IF position > BufferLowWatermark
                           THEN position - BufferLowWatermark ELSE 0
        moved == [st EXCEPT !.position = position,
                           !.last = [op |-> "read", pos |-> st.position,
                                     data |-> data, error |-> FALSE]]
    IN  IF data # << >> /\ position - st.last_release_position > BufferLowWatermark
            THEN [release_before(moved, release_pos) EXCEPT
                      !.last_release_position = release_pos]
            ELSE moved

StreamInit == stream = StreamNew

\* the streaming source while another machine runs
StreamParked == stream = StreamNew

\* download_worker lines 140-161: the GET fails, or the response comes with or
\* without a Content-Length
StreamRequest ==
    /\ stream.worker = "request"
    /\ \/ stream' = [stream EXCEPT !.error = TRUE, !.worker = "done"]
       \/ \E total_size \in {NoSize, StreamResourceSize} :
            stream' = [stream EXCEPT !.total_size = total_size, !.worker = "download"]
    /\ UNCHANGED notStreamVars

\* download_worker lines 167-219, one turn of the loop: end of the body, a chunk
\* appended, or a read error
StreamDownload ==
    /\ stream.worker = "download"
    /\ \/ /\ stream.download_position = StreamResourceSize
          /\ stream' = [stream EXCEPT !.download_complete = TRUE, !.worker = "done"]
       \/ /\ stream.download_position < StreamResourceSize
          /\ \E n \in 1..Min(StreamChunkSize, StreamResourceSize - stream.download_position) :
                stream' = [stream EXCEPT
                              !.buffer = @ \o Bytes(stream.download_position, n),
                              !.download_position = @ + n]
       \/ /\ stream.download_position < StreamResourceSize
          /\ stream' = [stream EXCEPT !.error = TRUE, !.worker = "done"]
    /\ UNCHANGED notStreamVars

\* Read::read lines 275-314, at the moment wait_for_data returns
StreamRead ==
    /\ \E size \in 1..MaxStreamBuf, timeout \in BOOLEAN :
        LET w == wait_for_data(stream, stream.position, timeout)
        IN  /\ w # "waiting"
            /\ stream' =
                 IF w = "true" THEN stream_read(stream, size)
                 ELSE [stream EXCEPT !.last = [op |-> "read", pos |-> stream.position,
                                               data |-> << >>, error |-> (w = "error")]]
    /\ UNCHANGED notStreamVars

\* Seek::seek lines 316-347: Start, Current and End all end in one position;
\* End without a known total size and a negative position fail
StreamSeek ==
    /\ \E new_pos \in 0..(StreamResourceSize + 1) :
        /\ new_pos # stream.position
        /\ stream' = [stream EXCEPT !.position = new_pos,
                                    !.last = [op |-> "seek", pos |-> new_pos,
                                              data |-> << >>, error |-> FALSE]]
    /\ UNCHANGED notStreamVars

StreamNext == StreamRequest \/ StreamDownload \/ StreamRead \/ StreamSeek


\* ------------------------------------------------------------------------
\* The output callback (player-ffi/src/lib.rs 483-496,
\* rust-audio-player/src/desktop/mod.rs 107-133)
\* ------------------------------------------------------------------------
\* capacity of the ring the callback reads from
RenderRingSize == 4

\* most samples the decode thread writes in one call
MaxRenderPacket == 2

\* most samples the device asks for in one invocation
MaxRenderCallback == 3

\* samples the decode thread writes in all
MaxRenderWritten == 5

\* the volume at which the callback leaves the samples alone, in tenths
UnityVolume == 10

\* a player's volumes, in tenths
RenderVolumes == {5, UnityVolume}

\* data.fill(0.0) over n samples
silence(n) == [i \in 1..n |-> 0]

\* the callback leaving the tail of the device buffer as it found it
render_callback_nofill(kind, playing, volume, b, len) ==
    IF ~playing THEN [rb |-> b, data |-> silence(len), ret |-> 0]
    ELSE LET r == IF kind = "engine" THEN read(b, len) ELSE read_legacy(b, len)
         IN  [rb |-> r.rb, data |-> [i \in 1..r.ret |-> r.out[i] * volume], ret |-> r.ret]

\* one invocation with a device buffer of len samples: silence while not
\* playing; else what the ring gives, at the volume, and silence after it.
\* Amplitudes are in tenths, so that the gain is a whole number
render_callback(kind, playing, volume, b, len) ==
    IF ~playing THEN [rb |-> b, data |-> silence(len), ret |-> 0]
    ELSE LET r == IF kind = "engine" THEN read(b, len) ELSE read_legacy(b, len)
         IN  [rb |-> r.rb,
              data |-> [i \in 1..r.ret |-> r.out[i] * volume] \o silence(len - r.ret),
              ret |-> r.ret]

RenderNone == [op |-> "none", len |-> 0, playing |-> FALSE, fifo |-> << >>, data |-> << >>]

\* an engine's stream (no volume: unity) or a desktop player's, freshly built
RenderNew(kind) ==
    [kind |-> kind, ring |-> new(RenderRingSize), playing |-> FALSE,
     volume |-> UnityVolume, fifo |-> << >>, written |-> 0, last |-> RenderNone]

RenderInit == \E kind \in {"engine", "desktop"} : render = RenderNew(kind)

\* the callback's variables while another machine runs
RenderParked == render = RenderNew("engine")

\* the decode thread writes a packet of fresh, non-silent samples
RenderDecodeWrite ==
    /\ render.written < MaxRenderWritten
    /\ \E n \in 1..MaxRenderPacket :
        LET data == [i \in 1..n |-> render.written + i]
            w == IF render.kind = "engine" THEN write(render.ring, data)
                 ELSE write_legacy(render.ring, data)
        IN  /\ w.ret > 0
            /\ render' = [render EXCEPT !.ring = w.rb,
                                        !.fifo = @ \o SubSeq(data, 1, w.ret),
                                        !.written = @ + w.ret,
                                        !.last = RenderNone]
    /\ UNCHANGED notRenderVars

\* play() or pause() stores the playing flag
RenderSetPlaying ==
    /\ render' = [render EXCEPT !.playing = ~@, !.last = RenderNone]
    /\ UNCHANGED notRenderVars

\* DesktopAudioPlayer::set_volume
RenderSetVolume ==
    /\ render.kind = "desktop"
    /\ \E volume \in RenderVolumes \ {render.volume} :
        render' = [render EXCEPT !.volume = volume, !.last = RenderNone]
    /\ UNCHANGED notRenderVars

\* the device invokes the callback
RenderInvoke ==
    /\ \E len \in 1..MaxRenderCallback :
        LET r == render_callback(render.kind, render.playing, render.volume,
                                 render.ring, len)
        IN  render' = [render EXCEPT
                          !.ring = r.rb,
                          !.fifo = SubSeq(@, r.ret + 1, Len(@)),
                          !.last = [op |-> "callback", len |-> len,
                                    playing |-> render.playing, fifo |-> render.fifo,
                                    data |-> r.data]]
    /\ UNCHANGED notRenderVars

RenderNext == RenderDecodeWrite \/ RenderSetPlaying \/ RenderSetVolume \/ RenderInvoke


\* ------------------------------------------------------------------------
\* HttpRangeState::initialize (rust-audio-player/src/http_range_source.rs 50-123,
\* podium-audio/crates/transport-http/src/range_source.rs 42-87)
\* ------------------------------------------------------------------------
\* largest resource the server holds
MaxProbeSize == 3

\* how the server answers HEAD: an error, or a response whose Content-Length is
\* absent, unparsable or the size
HeadAnswers == {"error", "no_length", "bad_length", "length"}

\* how it answers GET with Range: bytes=0-0: an error, or a response with a
\* Content-Range ending in /size or in /*, and a Content-Length (of the one-byte
\* body) or none
RangeAnswers == {"error", "range_total", "range_star_length", "range_star", "length", "none"}

\* response.header("Content-Length").and_then(parse) on the HEAD response
head_content_length(server) ==
    IF server.head = "length" THEN server.size ELSE NoSize

\* parse_total_from_content_range: what follows the last '/', if a number
parse_total_from_content_range(server) ==
    IF server.range = "range_total" THEN server.size ELSE NoSize

\* try_get_size_with_range_request: the total of Content-Range, else the
\* Content-Length of the response
try_get_size_with_range_request(server) ==
    IF server.range = "error" THEN [error |-> TRUE, size |-> NoSize]
    ELSE IF server.range \in {"range_total", "range_star_length", "range_star"}
            /\ parse_total_from_content_range(server) # NoSize
        THEN [error |-> FALSE, size |-> parse_total_from_content_range(server)]
    ELSE [error |-> FALSE,
          size |-> IF server.range \in {"range_star_length", "length"} THEN 1 ELSE NoSize]

ProbeNew(kind, server) ==
    [kind |-> kind, server |-> server, total_size |-> NoSize, pc |-> "idle",
     head_requested |-> FALSE, range_requested |-> FALSE, result |-> "none"]

ProbeInit ==
    \E kind \in {"rust-audio-player", "transport-http"}, size \in 1..MaxProbeSize,
       head \in HeadAnswers, range \in RangeAnswers :
        probe = ProbeNew(kind, [size |-> size, head |-> head, range |-> range])

\* the probe while another machine runs
ProbeParked ==
    probe = ProbeNew("transport-http", [size |-> 1, head |-> "length", range |-> "none"])

\* initialize is called (by new, and again by every read): nothing to do when the
\* size is known
ProbeCall ==
    /\ probe.pc \in {"idle", "done"}
    /\ probe' = IF probe.total_size # NoSize
                    THEN [probe EXCEPT !.pc = "done", !.result = "Ok"]
                    ELSE [probe EXCEPT !.pc = "head", !.result = "none",
                                       !.head_requested = FALSE, !.range_requested = FALSE]
    /\ UNCHANGED notSizeVars

\* the HEAD request: a response sets the size from its Content-Length and the
\* call returns Ok; an error leads to the fallback
ProbeHead ==
    /\ probe.pc = "head"
    /\ probe' = IF probe.server.head = "error"
                    THEN [probe EXCEPT !.pc = "fallback", !.head_requested = TRUE]
                    ELSE [probe EXCEPT !.pc = "done", !.head_requested = TRUE,
                                       !.total_size = head_content_length(probe.server),
                                       !.result = "Ok"]
    /\ UNCHANGED notSizeVars

\* the fallback after a failed HEAD: rust-audio-player fails when it errs or
\* yields no size, transport-http ignores both
ProbeFallback ==
    /\ probe.pc = "fallback"
    /\ LET r == try_get_size_with_range_request(probe.server)
       IN  probe' = [probe EXCEPT
                        !.pc = "done",
                        !.range_requested = TRUE,
                        !.total_size = IF r.error THEN @ ELSE r.size,
                        !.result = IF probe.kind = "rust-audio-player"
                                        /\ (r.error \/ r.size = NoSize)
                                      THEN "Err" ELSE "Ok"]
    /\ UNCHANGED notSizeVars

ProbeNext == ProbeCall \/ ProbeHead \/ ProbeFallback


Init == PodInit /\ RingParked /\ DeskParked /\ ScParked /\ HttpParked /\ M4aParked /\ CbParked /\ SettingsParked /\ PosParked /\ StreamParked /\ RenderParked /\ ProbeParked

Next ==
    \/ ApiStep
    \/ \E e \in Slots : DecodeStep(e)
    \/ \E e \in Slots : RenderCallback(e)

Spec == Init /\ [][Next]_vars

\* the player variables while the ring buffer alone runs
PodParked == PodInit

InitRing == RingInit /\ PodParked /\ DeskParked /\ ScParked /\ HttpParked /\ M4aParked /\ CbParked /\ SettingsParked /\ PosParked /\ StreamParked /\ RenderParked /\ ProbeParked

SpecRing == InitRing /\ [][RingNext]_vars

InitDesktop == DeskInit /\ RingParked /\ PodParked /\ ScParked /\ HttpParked /\ M4aParked /\ CbParked /\ SettingsParked /\ PosParked /\ StreamParked /\ RenderParked /\ ProbeParked

SpecDesktop == InitDesktop /\ [][DeskNext]_vars

InitState == ScInit /\ RingParked /\ PodParked /\ DeskParked /\ HttpParked /\ M4aParked /\ CbParked /\ SettingsParked /\ PosParked /\ StreamParked /\ RenderParked /\ ProbeParked

SpecState == InitState /\ [][ScNext]_vars

InitHttp == HttpInit /\ RingParked /\ PodParked /\ DeskParked /\ ScParked /\ M4aParked /\ CbParked /\ SettingsParked /\ PosParked /\ StreamParked /\ RenderParked /\ ProbeParked

SpecHttp == InitHttp /\ [][HttpNext]_vars

InitVfs == VfsInit /\ RingParked /\ PodParked /\ DeskParked /\ ScParked /\ HttpParked /\ CbParked /\ SettingsParked /\ PosParked /\ StreamParked /\ RenderParked /\ ProbeParked

SpecVfs == InitVfs /\ [][VfsNext]_vars

InitSmart == SmartInit /\ RingParked /\ PodParked /\ DeskParked /\ ScParked /\ HttpParked /\ CbParked /\ SettingsParked /\ PosParked /\ StreamParked /\ RenderParked /\ ProbeParked

SpecSmart == InitSmart /\ [][SmartNext]_vars

InitCallback == CbInit /\ RingParked /\ PodParked /\ DeskParked /\ ScParked /\ HttpParked /\ M4aParked /\ SettingsParked /\ PosParked /\ StreamParked /\ RenderParked /\ ProbeParked

SpecCallback == InitCallback /\ [][CbNext]_vars

InitSettings == SettingsInit /\ RingParked /\ PodParked /\ DeskParked /\ ScParked /\ HttpParked /\ M4aParked /\ CbParked /\ PosParked /\ StreamParked /\ RenderParked /\ ProbeParked

SpecSettings == InitSettings /\ [][SettingsNext]_vars

InitPosition == AcctInit /\ RingParked /\ PodParked /\ DeskParked /\ ScParked /\ HttpParked /\ M4aParked /\ CbParked /\ SettingsParked /\ StreamParked /\ RenderParked /\ ProbeParked

SpecPosition == InitPosition /\ [][AcctNext]_vars

InitStream == StreamInit /\ RingParked /\ PodParked /\ DeskParked /\ ScParked /\ HttpParked /\ M4aParked /\ CbParked /\ SettingsParked /\ PosParked /\ RenderParked /\ ProbeParked

SpecStream == InitStream /\ [][StreamNext]_vars

InitRender == RenderInit /\ RingParked /\ PodParked /\ DeskParked /\ ScParked /\ HttpParked /\ M4aParked /\ CbParked /\ SettingsParked /\ PosParked /\ StreamParked /\ ProbeParked

SpecRender == InitRender /\ [][RenderNext]_vars

InitProbe == ProbeInit /\ RingParked /\ PodParked /\ DeskParked /\ ScParked /\ HttpParked /\ M4aParked /\ CbParked /\ SettingsParked /\ PosParked /\ StreamParked /\ RenderParked

SpecProbe == InitProbe /\ [][ProbeNext]_vars

\* the steps inside a PodiumPlayer call, after its first
ApiBody == api.pc # "idle" /\ ApiStep

\* every decode thread keeps being scheduled and a call in progress goes on;
\* nothing obliges a caller to make another call
FairSpec ==
    /\ Spec
    /\ \A e \in Slots : WF_vars(DecodeStep(e))
    /\ WF_vars(ApiBody)

\* the scheduler keeps running the decoder thread, the device keeps calling the
\* callback of a playing stream, and a call that can go on does; nothing obliges
\* a caller to make another call
FairSpecDesktop ==
    /\ SpecDesktop
    /\ WF_vars(DeskThreadStep)
    /\ WF_vars(DeskCallback)
    /\ WF_vars(DeskApiBody)


\* ------------------------------------------------------------------------
\* Ring-buffer properties
\* ------------------------------------------------------------------------
\* number of samples accepted by write() and not yet returned by read()
Occupied == acc - Len(rlog)

\* C2: for a buffer of capacity C, after any sequence of write, read, clear and
\* resize, both cursors stay inside the storage, available_read() +
\* available_write() = C - 1, available_read() is the number of samples written
\* and not yet read, and that number never exceeds C - 1.
C2_OccupancyInvariant ==
    /\ rb.write_pos < rb.size
    /\ rb.read_pos < rb.size
    /\ available_write(rb) >= 0
    /\ available_read(rb) + available_write(rb) = rb.size - 1
    /\ available_read(rb) = Occupied
    /\ Occupied <= rb.size - 1

\* a write that wrapped around the end of the storage has filled the buffer
C2_Witness ==
    /\ lastOp = "write"
    /\ rb.size >= 3
    /\ rb.write_pos < rb.read_pos
    /\ available_write(rb) = 0
    /\ Occupied = rb.size - 1

\* C3: while no write since the last clear()/resize() was cut short, the samples
\* returned by read() so far are a prefix, in order, of the samples passed to
\* write() so far.
C3_FifoPrefix == ~overflow => IsPrefix(rlog, wlog)

\* a two-block read of the block-copy implementation: the read started before
\* the end of the storage and ended after its start
C3_Witness ==
    /\ rbKind = "ringbuffer"
    /\ ~overflow
    /\ lastOp = "read"
    /\ lastRet >= 2
    /\ rb.read_pos > 0
    /\ rb.read_pos < lastRet
    /\ Len(rlog) > rb.size

\* C4: a write() step returns min(len(data), available_write()) as measured
\* before the call, and afterwards the unread samples are the previously unread
\* samples followed by exactly that prefix of data: nothing unread is overwritten.
C4_WriteReturnsMin ==
    [][lastOp' = "write" =>
        /\ lastRet' = Min(Len(lastData'), available_write(rb))
        /\ lastRet' <= available_write(rb)
        /\ Contents(rb') = Contents(rb) \o SubSeq(lastData', 1, lastRet')]_vars

\* a write that was cut short: it stored a non-empty proper prefix and left the
\* buffer full
C4_Witness ==
    /\ lastOp = "write"
    /\ lastRet > 0
    /\ lastRet < Len(lastData)
    /\ available_write(rb) = 0

\* C28: after resize(new_capacity) the buffer is empty and its size is
\* new_capacity.
C28_ResizeEmptiesBuffer ==
    lastOp = "resize" => (available_read(rb) = 0 /\ rb.size = lastRet)

\* C29: after clear() nothing is readable, and a read that follows it
\* directly returns 0 samples.
C29_ClearEmptiesBuffer ==
    [][/\ lastOp' = "clear" => available_read(rb') = 0
       /\ (lastOp = "clear" /\ lastOp' = "read") => (lastRet' = 0 /\ lastData' = << >>)]_vars

\* clear() has just run on a buffer whose storage holds samples written before
C29_Witness ==
    lastOp = "clear" /\ \E i \in 0..(rb.size - 1) : rb.buffer[i] # 0

\* ------------------------------------------------------------------------
\* PodiumPlayer properties
\* ------------------------------------------------------------------------
AliveThreads == {e \in Slots : ThreadAlive(e)}

OpenStreams == {e \in Slots : eng[e].audio_stream}

\* C1: whatever calls were made, at most one decode thread is alive and at most
\* one output stream is open, and when start_engine builds a new engine no
\* thread of an earlier engine is alive and no stream of one is open.
C1_OneThreadOneStream ==
    /\ Cardinality(AliveThreads) <= 1
    /\ Cardinality(OpenStreams) <= 1
    /\ api.pc = "new_engine" => AliveThreads = {} /\ OpenStreams = {}

\* start_engine is about to build the engine for another source, the engine it
\* replaces having been stopped and its thread joined
C1_Witness ==
    /\ api.pc = "new_engine"
    /\ api.op = "load"
    /\ last_source \notin {"none", api.src}
    /\ \E e \in Slots : eng[e].stop_flag /\ thr[e].pc = "done" /\ ~eng[e].handle

\* C5: every step that changes the PlayerState, by an API call or by the decode
\* thread, changes it along a pair of the transition table.
C5_OnlyTableTransitions ==
    [][state' # state => validate_state_transition(state, state, state')]_vars

\* C6: a play() call enters its body only in state Ready or Paused, a pause()
\* call only in state Playing.
C6_PlayPauseGuarded ==
    [][/\ (api.pc = "idle" /\ api'.pc = "play_flag") => state \in {"Ready", "Paused"}
       /\ (api.pc = "idle" /\ api'.pc = "pause_flag") => state = "Playing"]_vars

\* C7: when the decode thread takes the pending-seek slot while a stored target
\* is waiting in it, the thread goes on to re-seek to that target, or the
\* demuxer already stands where the re-seek would put it; and the re-seek puts
\* the demuxer and the position counter at the target taken.
C7_PendingSeekApplied ==
    [][\A e \in Slots :
        /\ (thr[e].pc = "swap" /\ thr'[e].pc # "swap" /\ seekHist[e].pending # NoSeek) =>
              \/ thr'[e].pc = "reseek" /\ thr'[e].target_ms = seekHist[e].pending
              \/ thr'[e].demux_pos = demuxer_seek(thr[e].demux_pos, seekHist[e].pending)
        /\ (thr[e].pc = "reseek" /\ thr'[e].pc = "next") =>
              /\ thr'[e].demux_pos = demuxer_seek(thr[e].demux_pos, thr[e].target_ms)
              /\ eng'[e].position_ms = thr[e].target_ms]_vars

\* C8: when the decode thread takes the pending-seek slot, a target it takes is
\* the one stored last, the slot is left empty, and with nothing stored since
\* the slot was last taken the thread does not re-seek.
C8_LastSeekWins ==
    [][\A e \in Slots :
        (thr[e].pc = "swap" /\ thr'[e].pc # "swap") =>
            /\ eng'[e].seek_request = 0
            /\ thr'[e].pc = "reseek" => thr'[e].target_ms = seekHist[e].pending
            /\ seekHist[e].pending = NoSeek => thr'[e].pc = "next"]_vars

\* the thread has taken a target that had replaced an older one it never saw
C8_Witness ==
    \E e \in Slots :
        /\ thr[e].pc = "reseek"
        /\ thr[e].target_ms > 0
        /\ seekHist[e].superseded
        /\ seekHist[e].pending = NoSeek
        /\ eng[e].seek_request = 0

\* what holds of the engine a finished stop() or release() acted on
EngineStopped(e) ==
    /\ eng[e].stop_flag
    /\ ~ThreadAlive(e)
    /\ ~eng[e].handle
    /\ ~eng[e].audio_stream

\* C9: on the step on which stop() returns, the stop flag of the engine is set,
\* its thread has exited and is joined, it holds no stream, the state is Stopped
\* and get_status() reports position 0; on the step on which release() returns,
\* no thread is alive, no stream is open, the player holds no engine, the state
\* is Idle and get_status() reports position 0.
C9_StopReleasePostconditions ==
    [][/\ (api.pc = "stop_finish" /\ api'.pc = "idle") =>
            /\ state' = "Stopped"
            /\ get_status_position_ms' = 0
            /\ engine' # 0 => EngineStopped(engine)'
       /\ (api.pc = "release_finish" /\ api'.pc = "idle") =>
            /\ state' = "Idle"
            /\ engine' = 0
            /\ AliveThreads' = {}
            /\ OpenStreams' = {}
            /\ get_status_position_ms' = 0]_vars

\* C11: on the step on which the decode thread leaves decode_loop because
\* decoder.decode failed, the player state is Error.
C11_DecodeErrorSetsError ==
    [][\A e \in Slots :
        (thr[e].pc = "next" /\ thr'[e] = ThreadDone) => state' = "Error"]_vars

\* the thread of engine e ended before it stored the track duration: the source
\* could not be opened or probed
ProbeFailed(e) == thr[e].pc = "done" /\ eng[e].duration_ms = 0

\* C12: load() does not return success, state Ready, for an engine whose source
\* could not be opened or probed; and the open, the probe and the opening of the
\* output device fail, if they do, while the load() that built the engine is
\* still running, so that it can report the failure.
C12_LoadFailsSynchronously ==
    [][/\ (api.pc = "load_ready" /\ api'.pc = "idle") =>
            ~(ProbeFailed(engine) /\ state' = "Ready")
       /\ \A e \in Slots :
            (thr[e].pc \in {"open", "device"} /\ thr'[e] = ThreadDone) =>
                (api.op = "load" /\ api.pc # "idle")]_vars

\* C13: when the decode thread of a playing engine goes on from a decoded packet
\* to the next loop iteration, all samples of the packet have been appended, in
\* order, to the unread contents of the ring buffer.
C13_PartialWriteRetried ==
    [][\A e \in Slots :
        (thr[e].pc = "write" /\ thr'[e].pc = "check_stop" /\ eng[e].playing) =>
            Contents(eng'[e].ring) = Contents(eng[e].ring) \o thr[e].pcm]_vars

\* C30: the start-up of the current engine's decode thread never switches off
\* a playing flag that play() has set and never replaces the state Playing.
C30_PlayNotLostAtStartup ==
    [][/\ (engine # 0 /\ thr[engine].pc = "init_playing"
                      /\ thr'[engine].pc = "init_state") => ~eng[engine].playing
       /\ (engine # 0 /\ thr[engine].pc = "init_state"
                      /\ thr'[engine].pc = "check_stop") => state # "Playing"]_vars

\* play() has returned on the engine the player holds, after a load or seek
\* that re-used it by seek_to although its decode thread had exited
PlayReturnedOnExitedEngine ==
    /\ api.pc = "idle" /\ engine # 0
    /\ state = "Playing" /\ eng[engine].playing
    /\ ThreadExited(engine) /\ seekHist[engine].after_exit

\* C31: a play() that returns after a load or seek on an engine whose decode
\* thread had exited is eventually followed by decoded samples being written
\* to that engine's ring buffer.
C31_PlayAfterExitDecodesAgain ==
    PlayReturnedOnExitedEngine ~> (engine # 0 /\ thr[engine].pc = "write")

\* C34: the return of seek() leaves the PlayerState as it was: Playing stays
\* Playing, Paused stays Paused.
C34_SeekKeepsState ==
    [][(api.pc = "seek_finish" /\ api'.pc = "idle") => state' = state]_vars

\* ------------------------------------------------------------------------
\* DesktopAudioPlayer properties
\* ------------------------------------------------------------------------
\* C10: a stop(), release() or load that waits in stop_decoder_thread for the
\* decoder thread to end, the stop flag set, eventually gets past the join.
C10_JoinReturns == (dapi.pc = "join") ~> (dapi.pc # "join")

\* C24: no step of play, pause, seek or stop takes the player out of the
\* state Error.
C24_ErrorSticky ==
    [][(desk.state = "Error" /\ desk'.state # "Error") =>
        dapi.op \notin {"play", "pause", "seek", "stop"}]_vars

\* C32: outside a running seek, the decoder thread only writes the packet that
\* was decoded at the decoder's present position: once seek() has returned, no
\* packet decoded before it reaches the ring buffer.
C32_NoStaleWriteAfterSeek ==
    [][(/\ dthr.pc = "write"
        /\ dthr'.written > dthr.written
        /\ dapi.op # "seek") => dthr.samples[1] = desk.decoder]_vars

\* C33: once the decoder thread has exited leaving the state Stopped (end of
\* stream) or Error (decode error), a pause() or play() in progress does not
\* replace that state.
C33_ThreadStateNotOverwritten ==
    [][(/\ dthr.pc = "done"
        /\ desk.state \in {"Stopped", "Error"}
        /\ dapi.op \in {"pause", "play"}) => desk'.state = desk.state]_vars

\* C40: the last StateChanged event dispatched names as old_state the state the
\* player was in before the transition and as new_state the state it entered.
C40_StateChangedCarriesTransition ==
    dapi.event # NoEvent =>
        /\ dapi.event.old_state = dapi.event.was
        /\ dapi.event.new_state = dapi.event.entered

\* ------------------------------------------------------------------------
\* PlayerStateContainer properties
\* ------------------------------------------------------------------------
\* the table as the specification draws it: Idle -> Loading -> Ready -> Playing
\* <-> Paused -> Stopped -> {Idle, Loading}, Playing -> Stopped of the legal
\* cycle, Error from Loading, Ready and Playing, and out of Error only by a load
AllowList ==
    { <<"Idle", "Loading">>, <<"Loading", "Ready">>, <<"Ready", "Playing">>,
      <<"Playing", "Paused">>, <<"Paused", "Playing">>, <<"Paused", "Stopped">>,
      <<"Playing", "Stopped">>, <<"Stopped", "Idle">>, <<"Stopped", "Loading">>,
      <<"Loading", "Error">>, <<"Ready", "Error">>, <<"Playing", "Error">>,
      <<"Error", "Loading">> }

\* C14: a validate_state_transition(from, to) call with (from, to) outside the
\* allow-list returns InvalidState (the call leaves the state as it is).
C14_OutsideTableRejected ==
    (validation # NoValidation /\ <<validation.from, validation.to>> \notin AllowList)
        => validation.result = "InvalidState"

\* C15: a validate_state_transition(from, to) call made while the current state
\* is `from`, with (from, to) in the allow-list, returns Ok.
C15_TableAccepted ==
    (/\ validation # NoValidation
     /\ validation.current = validation.from
     /\ <<validation.from, validation.to>> \in AllowList)
        => validation.result = "Ok"

\* ------------------------------------------------------------------------
\* HttpRangeSource properties
\* ------------------------------------------------------------------------
\* byte i of the resource is held by some cache entry
Cached(cache, i) ==
    \E k \in 1..Len(cache) : cache[k].offset <= i /\ i < cache[k].offset + cache[k].len

\* C16: a Range request sent by a read asks for no byte that the cache held
\* when the read began.
C16_NoRefetchOfCachedBytes ==
    [][(net'.op = "read" /\ net'.request # NoRequest) =>
        \A i \in net'.request.lo..net'.request.hi : ~Cached(http.cache, i)]_vars

\* the cap of the implementation at hand, in bytes
CacheCap ==
    IF http.kind = "transport-http" THEN MaxCacheSize ELSE MaxCacheEntries * ChunkSize

\* C17: the bytes held in the cache never exceed the cap by more than one chunk.
C17_CacheWithinCapPlusChunk == total_cache_size(http.cache) <= CacheCap + ChunkSize

\* C18: a read() that started at or beyond the end of the resource returned 0
\* bytes and no error.
C18_ReadAtEofReturnsZero ==
    (net.op = "read" /\ net.offset >= ResourceSize) => (net.result = 0 /\ ~net.error)

\* ------------------------------------------------------------------------
\* M4A source properties
\* ------------------------------------------------------------------------
\* the file as the virtual layout promises it: ftyp, then moov, then mdat
VirtualLayout ==
    Bytes(0, m4file[1].size)
        \o Bytes(m4file[1].size + m4file[2].size, m4file[3].size)
        \o Bytes(m4file[1].size, m4file[2].size)

\* C19: for a file laid out ftyp, mdat, moov, what sequential reads from
\* virtual offset 0 have returned is the beginning of ftyp, moov, mdat.
C19_SequentialReadYieldsFastStartLayout ==
    (vfs.ok /\ vfs.sequential) => IsPrefix(vfs.out, VirtualLayout)

\* a moov box begins within the first bytes the detection waits for
MoovNearStart ==
    \E k \in 1..Len(m4file) :
        m4file[k].atom_type = "moov" /\ AtomOffset(m4file, k) < MinCheckBytes

\* C20: for a file whose moov box begins within the first 8 KB,
\* SmartM4ASource::new selects FastStart and VirtualFastStartSource::new has
\* fetched no tail.
C20_MoovAtStartSelectsFastStart ==
    (smart.pc = "done" /\ smart.variant # "none" /\ MoovNearStart) =>
        (smart.variant = "FastStart" /\ ~smart.tail_fetched)

\* ftyp and mdat start in the header window, and the one moov box is the last
\* box of the file, lies within the tail window and begins beyond the bytes
\* the detection looks at
MoovOnlyInTail ==
    /\ \E k \in 1..Len(m4file) :
            m4file[k].atom_type = "ftyp" /\ AtomOffset(m4file, k) < HeaderSearchSize
    /\ \E k \in 1..Len(m4file) :
            m4file[k].atom_type = "mdat" /\ AtomOffset(m4file, k) < HeaderSearchSize
    /\ m4file[Len(m4file)].atom_type = "moov"
    /\ \A k \in 1..(Len(m4file) - 1) : m4file[k].atom_type # "moov"
    /\ m4file[Len(m4file)].size <= TailSearchSize
    /\ AtomOffset(m4file, Len(m4file)) >= MoovCheckSize

\* C21: for a file with ftyp and mdat in the header window and moov only in the
\* tail window, a SmartM4ASource::new that looked at the start of the file and
\* met no network failure selects VirtualFastStart.
C21_MoovInTailSelectsVirtual ==
    (smart.pc = "done" /\ smart.checked /\ smart.relocation # "network" /\ MoovOnlyInTail) =>
        smart.variant = "VirtualFastStart"

\* C27: when VirtualFastStartSource::new has failed, for a missing box or a
\* failed request, SmartM4ASource::new has returned Ok with the FastStart
\* variant that holds the streaming source.
C27_RelocationFailureFallsBack ==
    (smart.pc = "done" /\ smart.relocation \in {"network", "no_atom"}) =>
        (smart.result = "Ok" /\ smart.variant = "FastStart")

\* relocation failed for a missing box after the detection found no moov
C27_Witness ==
    smart.pc = "done" /\ smart.checked /\ smart.relocation = "no_atom"

\* C35: a read at a position at or past the exposed total size returns no bytes
\* and no error, and a read that starts before the end returns no more bytes
\* than lie between the position and the end.
C35_VirtualStreamEndsAtTotalSize ==
    vfs.ok =>
        \A size \in 1..MaxVfsBuf :
            LET r == read_at(vfs, vfs.position, size)
            IN  IF vfs.position >= vfs.total_size
                    THEN ~r.error /\ r.data = << >>
                    ELSE ~r.error => Len(r.data) <= vfs.total_size - vfs.position

\* C37: in every state of a source built over a file ftyp, mdat, moov, a virtual
\* offset below ftyp.size maps to itself, one in the next moov.size bytes maps
\* into the in-memory moov, and any later one maps into the real file at
\* mdat.offset plus its distance from ftyp.size + moov.size; reads and seeks
\* leave that mapping as construction made it.
C37_VirtualToRealMapping ==
    vfs.ok =>
        LET ftyp_size == m4file[1].size
            moov_size == m4file[3].size
            mdat_offset == AtomOffset(m4file, 2)
        IN  \A v \in 0..(FileSize(m4file) + 1) :
                map_virtual_to_real(vfs, v) =
                    IF v < ftyp_size THEN [offset |-> v, from_moov |-> FALSE]
                    ELSE IF v < ftyp_size + moov_size
                        THEN [offset |-> v - ftyp_size, from_moov |-> TRUE]
                    ELSE [offset |-> mdat_offset + (v - ftyp_size - moov_size),
                          from_moov |-> FALSE]

\* a source whose cursor has been read into the relocated mdat
C37_Witness ==
    /\ vfs.ok /\ vfs.virtual_moov_size > 1
    /\ vfs.position > vfs.virtual_moov_offset + vfs.virtual_moov_size
    /\ vfs.cache # << >>

\* ------------------------------------------------------------------------
\* CallbackManager properties
\* ------------------------------------------------------------------------
\* C22: any two PositionChanged deliveries to one listener are at least its
\* interval apart.
C22_PositionThrottled ==
    \A k \in 1..Len(cb.callbacks) :
        LET c == cb.callbacks[k]
        IN  \A i, j \in 1..Len(c.log) :
                (i < j /\ c.log[i].event = "PositionChanged"
                       /\ c.log[j].event = "PositionChanged") =>
                    c.log[j].at - c.log[i].at >= c.position_update_interval

\* of two PositionChanged dispatched, a throttled listener has received one
\* and an unthrottled listener both
C22_Witness ==
    /\ Len(cb.dispatched) = 2
    /\ \A i \in 1..2 : cb.dispatched[i] = "PositionChanged"
    /\ \E k \in 1..Len(cb.callbacks) :
            /\ cb.callbacks[k].position_update_interval >= 1
            /\ cb.callbacks[k].since = 0
            /\ Len(cb.callbacks[k].log) = 1
    /\ \E k \in 1..Len(cb.callbacks) :
            /\ cb.callbacks[k].position_update_interval = 0
            /\ Len(cb.callbacks[k].log) = 2

\* the events other than PositionChanged that listener c has received
OtherReceived(c) == SelectSeq(c.log, LAMBDA e : e.event # "PositionChanged")

\* the numbers of the events other than PositionChanged dispatched since c
\* was registered
OtherDispatched(c) ==
    {n \in (c.since + 1)..Len(cb.dispatched) : cb.dispatched[n] # "PositionChanged"}

\* C23: every listener has received each event other than PositionChanged
\* dispatched since its registration exactly once, in dispatch order.
C23_OtherEventsDelivered ==
    \A k \in 1..Len(cb.callbacks) :
        LET c == cb.callbacks[k]
            r == OtherReceived(c)
        IN  /\ Len(r) = Cardinality(OtherDispatched(c))
            /\ \A i \in 1..Len(r) :
                    /\ r[i].seq \in OtherDispatched(c)
                    /\ r[i].event = cb.dispatched[r[i].seq]
            /\ \A i, j \in 1..Len(r) : i < j => r[i].seq < r[j].seq

\* two listeners, one of them throttled, have each received two events other
\* than PositionChanged dispatched at the same clock tick
C23_Witness ==
    /\ Len(cb.callbacks) = 2
    /\ \E k \in 1..2 : cb.callbacks[k].position_update_interval >= 1
    /\ \A k \in 1..2 :
            LET r == OtherReceived(cb.callbacks[k])
            IN  Len(r) = 2 /\ r[1].at = r[2].at /\ r[1].event # r[2].event

\* ------------------------------------------------------------------------
\* Volume and playback rate properties
\* ------------------------------------------------------------------------
\* C25: the volume get_status() reports lies in [0, 1] and the playback rate
\* it reports is above 0.
C25_VolumeAndRateInRange ==
    /\ UnitRangeContains(settings.volume)
    /\ ~settings.playback_rate.nan
    /\ settings.playback_rate.tenths > 0

\* ------------------------------------------------------------------------
\* Position accounting properties
\* ------------------------------------------------------------------------
\* C26: position_ms is not above the exact position of the frames written
\* since the seek base, and not more than one packet's duration below it.
C26_PositionWithinOnePacket ==
    LET counted == (acct.pos_ms - acct.base_ms) * acct.sample_rate
        exact == acct.frames_written * 1000
    IN  counted <= exact /\ exact - counted <= acct.packet_frames * 1000

\* ------------------------------------------------------------------------
\* HttpStreamingSource properties
\* ------------------------------------------------------------------------
\* C36: a read at a position below the size of the resource that does not fail
\* returns the bytes at that position, at least one of them.
C36_ZeroOnlyAtTrueEnd ==
    (stream.last.op = "read" /\ ~stream.last.error /\ stream.last.pos < StreamResourceSize) =>
        /\ stream.last.data # << >>
        /\ stream.last.data = Bytes(stream.last.pos, Len(stream.last.data))

\* ------------------------------------------------------------------------
\* Output callback properties
\* ------------------------------------------------------------------------
\* C38: the callback can run whatever the ring holds; the ring holds exactly the
\* samples written and not yet played; an invocation with the playing flag off
\* fills the device buffer with zeros and takes nothing, and one with the flag
\* on puts out the oldest samples in order, at the volume, then zeros.
C38_CallbackNeverWaits ==
    /\ ENABLED RenderInvoke
    /\ Contents(render.ring) = render.fifo
    /\ render.last.op = "callback" =>
         LET last == render.last
             taken == IF last.playing THEN Min(last.len, Len(last.fifo)) ELSE 0
         IN  /\ Len(last.data) = last.len
             /\ \A i \in 1..last.len :
                  last.data[i] = IF i <= taken THEN last.fifo[i] * render.volume ELSE 0
             /\ render.fifo = SubSeq(last.fifo, taken + 1, Len(last.fifo))

\* an invocation that found fewer samples than it asked for, after the ring
\* had wrapped
C38_Witness ==
    /\ render.last.op = "callback" /\ render.last.playing
    /\ Len(render.last.fifo) > 0 /\ Len(render.last.fifo) < render.last.len
    /\ render.written > RenderRingSize

\* ------------------------------------------------------------------------
\* HttpRangeState::initialize properties
\* ------------------------------------------------------------------------
\* C39: when initialize has returned after a HEAD that failed or brought no
\* usable Content-Length, the bytes=0-0 GET has been made, and the total size
\* is unknown only if that GET was made and yielded no size.
C39_FallbackOnMissingLength ==
    (probe.pc = "done" /\ probe.head_requested) =>
        /\ probe.server.head # "length" => probe.range_requested
        /\ probe.total_size = NoSize =>
              /\ probe.range_requested
              /\ try_get_size_with_range_request(probe.server).size = NoSize

====
